---- MODULE Spec2Model ----
(***************************************************************************)
(* Voting subsystem of the community REST backend (server/server.js).      *)
(*                                                                         *)
(* Every route handler talks to PostgreSQL through ONE shared pg Client    *)
(* (server.js:16-22).  A pg Client runs its queries strictly one at a      *)
(* time in the order client.query was called, and the connection has a     *)
(* single transaction state.  A handler is suspended at each               *)
(* `await client.query(...)`; the model has one action per statement,      *)
(* executed for the request at the head of the client's query queue, and   *)
(* the action includes the handler code that runs up to the next query     *)
(* (which is queued at the tail) or up to the response.                    *)
(***************************************************************************)
EXTENDS Integers, Sequences, FiniteSets, TLC

(***************************************************************************)
(* Bounds of the model.                                                    *)
(***************************************************************************)
MaxReq == 3          \* requests received in one behaviour
MaxInFlight == 2     \* requests being handled at the same time
MaxFail == 1         \* storage failures injected in one behaviour

Users == {1, 2}      \* user ids carried by valid tokens
Posts == {1, 2}      \* ids of the rows of table posts
Comments == {1, 2}   \* ids of the rows of table comments
Subcats == {1}       \* ids of the rows of table subcategories
Events == {1}        \* ids of the rows of table discount_events
Stores == {1}        \* ids of the rows of table stores

UP == 1
DOWN == -1
Intents == {UP, DOWN}

(***************************************************************************)
(* req.params.id values: strings, as sequences of characters.              *)
(***************************************************************************)
IdParams ==
  { <<"1">>, <<"2">>, <<"9">>, <<"0">>, <<"x">>, <<"-", "9">>, <<"1", "x">> }

DigitChars == {"0", "1", "2", "9"}

DigitVal(c) ==
  CASE c = "0" -> 0
    [] c = "1" -> 1
    [] c = "2" -> 2
    [] c = "9" -> 9

RECURSIVE DigitPrefixLen(_)
DigitPrefixLen(s) ==
  IF s = <<>> \/ Head(s) \notin DigitChars THEN 0
  ELSE 1 + DigitPrefixLen(Tail(s))

RECURSIVE DigitsValue(_, _)
DigitsValue(s, n) ==
  IF n = 0 THEN 0
  ELSE 10 * DigitsValue(s, n - 1) + DigitVal(s[n])

NaN == [nan |-> TRUE, val |-> 0]
Num(v) == [nan |-> FALSE, val |-> v]

\* parseInt(req.params.id, 10): optional sign, then the longest prefix of
\* decimal digits; NaN when there is no digit.
ParseInt(s) ==
  LET neg  == s # <<>> /\ Head(s) = "-"
      body == IF neg THEN Tail(s) ELSE s
      n    == DigitPrefixLen(body)
  IN  IF n = 0 THEN NaN
      ELSE Num(IF neg THEN 0 - DigitsValue(body, n) ELSE DigitsValue(body, n))

\* Variant: only NaN is refused.
Falsy_NaNOnly(v) == v.nan

\* `!postId` of JavaScript: true for NaN and for 0.
Falsy(v) == v.nan \/ v.val = 0

(***************************************************************************)
(* Authorization header (authMiddleware).                                  *)
(***************************************************************************)
Credentials ==
  { [present |-> FALSE, valid |-> FALSE, userId |-> 0],
    [present |-> TRUE,  valid |-> FALSE, userId |-> 0] }
  \cup { [present |-> TRUE, valid |-> TRUE, userId |-> u] : u \in Users }

\* Variant: any Authorization header passes.
authMiddleware_HeaderOnly(cred) == IF ~cred.present THEN 401 ELSE 0

\* 0 when next() is called, otherwise the status the middleware answers.
authMiddleware(cred) ==
  IF ~cred.present THEN 401
  ELSE IF ~cred.valid THEN 401
  ELSE 0

VARIABLES
  db,         \* tables as the shared connection sees them: posts, post_votes
  committed,  \* tables as committed (what ROLLBACK restores)
  txStatus,   \* transaction state of the connection: idle, active, failed
  queue,      \* the client's query queue: per pending query, the handler
              \* waiting for it (its position and local variables)
  last,       \* the response sent by the latest step (NoResp: none)
  started,    \* requests received so far
  fails,      \* storage failures injected so far
  issued      \* the tokens signed so far (userId and role claims), none
              \* of them expired

vars == <<db, committed, txStatus, queue, last, started, fails, issued>>

NoRow == [upvotes |-> 0, downvotes |-> 0]
NewReq ==
  [pc |-> "postCheck", userId |-> 0, postId |-> 0, intent |-> UP,
   post |-> NoRow, voteCheck |-> <<>>, branch |-> "none"]

\* A response, with the request it answers: the route (op), the identity
\* and role resolved from the token, the :id parameter and the body.
NoResp ==
  [code |-> 0, userId |-> 0, postId |-> NaN, intent |-> UP,
   success |-> {}, upvotes |-> {}, downvotes |-> {},
   op |-> "vote", role |-> "none", target |-> 0, arg |-> "none"]

\* The name of user u as registered.
NameOf(u) == CASE u = 1 -> "u1" [] u = 2 -> "u2" [] OTHER -> "u3"

\* A populated database: users 1 and 2 have registered with the default
\* role, each has written the post and the comment of their own number,
\* and there is one subcategory, one discount event, one store and one
\* restaurant (table restaurants is keyed by name).  No vote has been
\* cast.  seq holds the last id given by the sequence of each table.
FreshDb ==
  [posts      |-> [p \in Posts |->
                     [upvotes |-> 0, downvotes |-> 0, title |-> "t0",
                      author_id |-> p]],
   post_votes |-> [k \in Users \X Posts |-> <<>>],
   users      |-> [u \in Users |->
                     [username |-> NameOf(u), password_hash |-> "hash",
                      role |-> "user", visible_to_others |-> TRUE]],
   comments   |-> [c \in Comments |-> [author_id |-> c, text |-> "c0"]],
   subcategories |-> [s \in Subcats |-> [name |-> "s0"]],
   discount_events |-> [e \in Events |-> [item_name |-> "i0"]],
   stores     |-> [x \in Stores |-> [store_name |-> "n0"]],
   restaurants |-> [n \in {"r1"} |-> [full_address |-> "a0",
                                       geom |-> "road"]],
   seq        |-> [posts |-> Cardinality(Posts),
                   comments |-> Cardinality(Comments),
                   subcategories |-> Cardinality(Subcats),
                   discount_events |-> Cardinality(Events),
                   stores |-> Cardinality(Stores)]]

\* jwt.sign({ userId, username, role })
Signed(u, role) == [userId |-> u, role |-> role]

\* The tokens users 1 and 2 were given when they registered.
FreshTokens == { Signed(u, FreshDb.users[u].role) : u \in Users }

Init ==
  /\ db = FreshDb
  /\ committed = FreshDb
  /\ txStatus = "idle"
  /\ queue = <<>>
  /\ last = NoResp
  /\ started = 0
  /\ fails = 0
  /\ issued = FreshTokens

(***************************************************************************)
(* The database statements of the vote handlers, on the tables the         *)
(* connection sees.                                                        *)
(***************************************************************************)

\* SELECT id, upvotes, downvotes FROM posts WHERE id = $1
SelectPost(d, id) ==
  IF id \in DOMAIN d.posts
  THEN << [upvotes |-> d.posts[id].upvotes,
           downvotes |-> d.posts[id].downvotes] >>
  ELSE <<>>

\* SELECT vote_type FROM post_votes WHERE user_id = $1 AND post_id = $2
SelectVote(d, u, p) == d.post_votes[<<u, p>>]

\* The vote ledger is keyed by (user, post): a second row for a pair is
\* refused by the store.
KeyedByUserPost == TRUE

UniqueViolation(d, u, p) == KeyedByUserPost /\ d.post_votes[<<u, p>>] # <<>>

\* INSERT INTO post_votes (user_id, post_id, vote_type) VALUES ($1, $2, $3)
InsertVote(d, u, p, v) == [d EXCEPT !.post_votes[<<u, p>>] = Append(@, v)]

\* UPDATE post_votes SET vote_type = $1 WHERE user_id = $2 AND post_id = $3
UpdateVote(d, u, p, v) ==
  [d EXCEPT !.post_votes[<<u, p>>] = [i \in 1..Len(@) |-> v]]

\* Variant: the UPDATE has no WHERE clause.
SetUpvotes_NoWhere(d, p, n) ==
  [d EXCEPT !.posts = [q \in DOMAIN @ |-> [@[q] EXCEPT !.upvotes = n]]]

\* UPDATE posts SET upvotes = $1 WHERE id = $2
SetUpvotes(d, p, n) ==
  IF p \in DOMAIN d.posts THEN [d EXCEPT !.posts[p].upvotes = n] ELSE d

\* UPDATE posts SET downvotes = $1 WHERE id = $2
SetDownvotes(d, p, n) ==
  IF p \in DOMAIN d.posts THEN [d EXCEPT !.posts[p].downvotes = n] ELSE d

\* UPDATE posts SET upvotes = $1, downvotes = $2 WHERE id = $3
SetBoth(d, p, u, n) ==
  IF p \in DOMAIN d.posts
  THEN [d EXCEPT !.posts[p].upvotes = u, !.posts[p].downvotes = n]
  ELSE d

(***************************************************************************)
(* What the two handlers compute from the rows they read.                  *)
(***************************************************************************)

\* Variant: the first-vote branch is taken whatever voteCheck returned.
NoPriorVote_Always(rows) == TRUE

\* `voteCheck.rows.length === 0`
NoPriorVote(rows) == Len(rows) = 0

\* Variant: the downvote handler tests for +1 as the upvote handler does.
AlreadyVoted_UpOnly(rows, intent) == rows[1] = UP

\* upvote: `existingVote === +1`; downvote: `existingVote === -1`
AlreadyVoted(rows, intent) == rows[1] = intent

\* upvote, no prior vote: newUpvotes = post.upvotes + 1
UpvoteFirst(d, r) == SetUpvotes(d, r.postId, r.post.upvotes + 1)

\* Variant: the switch to an upvote does not take the downvote back.
UpvoteSwitch_NoDecrement(d, r) ==
  SetBoth(d, r.postId, r.post.upvotes + 1, r.post.downvotes)

\* upvote over a downvote: newUpvotes, newDownvotes
UpvoteSwitch(d, r) ==
  SetBoth(d, r.postId, r.post.upvotes + 1, r.post.downvotes - 1)

\* Variant: the first downvote is computed from the upvotes read.
DownvoteFirst_FromUpvotes(d, r) ==
  SetDownvotes(d, r.postId, r.post.upvotes + 1)

\* downvote, no prior vote: newDownvotes = post.downvotes + 1
DownvoteFirst(d, r) == SetDownvotes(d, r.postId, r.post.downvotes + 1)

\* Variant: the switch to a downvote does not take the upvote back.
DownvoteSwitch_KeepUpvotes(d, r) ==
  SetBoth(d, r.postId, r.post.upvotes, r.post.downvotes + 1)

\* downvote over an upvote: newUpvotes, newDownvotes
DownvoteSwitch(d, r) ==
  SetBoth(d, r.postId, r.post.upvotes - 1, r.post.downvotes + 1)

\* The row written to post_votes by the request.
LedgerWritten(d, r) ==
  IF r.branch = "first"
  THEN InsertVote(d, r.userId, r.postId, r.intent)
  ELSE UpdateVote(d, r.userId, r.postId, r.intent)

\* The counters written to posts by the request.
CountersWritten(d, r) ==
  IF r.intent = UP
  THEN IF r.branch = "first" THEN UpvoteFirst(d, r) ELSE UpvoteSwitch(d, r)
  ELSE IF r.branch = "first" THEN DownvoteFirst(d, r)
       ELSE DownvoteSwitch(d, r)

(***************************************************************************)
(* Responses.                                                              *)
(***************************************************************************)
Resp(r, code, success, up, down) ==
  [NoResp EXCEPT !.code = code, !.userId = r.userId,
                 !.postId = Num(r.postId), !.intent = r.intent,
                 !.success = success, !.upvotes = up, !.downvotes = down]

\* res.json of the success paths: the first vote carries the counter of
\* the intent only, the switch carries both.
VotedResp(r) ==
  IF r.branch = "first"
  THEN IF r.intent = UP
       THEN Resp(r, 200, {TRUE}, {r.post.upvotes + 1}, {})
       ELSE Resp(r, 200, {TRUE}, {}, {r.post.downvotes + 1})
  ELSE IF r.intent = UP
       THEN Resp(r, 200, {TRUE}, {r.post.upvotes + 1}, {r.post.downvotes - 1})
       ELSE Resp(r, 200, {TRUE}, {r.post.upvotes - 1}, {r.post.downvotes + 1})

(***************************************************************************)
(* Steps shared by the actions.                                            *)
(***************************************************************************)
\* The handler whose query the client executes next.
cur == Head(queue)

At(pc) == queue # <<>> /\ cur.pc = pc

\* A storage failure may be injected into the statement being executed.
Inject(inject) ==
  /\ inject => fails < MaxFail
  /\ fails' = IF inject THEN fails + 1 ELSE fails

\* A statement is refused while the transaction is in the failed state.
StmtError(inject) == inject \/ txStatus = "failed"

\* An error inside a transaction block puts the block in the failed state.
TxAfterError == IF txStatus = "active" THEN "failed" ELSE txStatus

\* The handler goes on to its next query, queued behind the others.
Continue(r) ==
  /\ queue' = Append(Tail(queue), r)
  /\ last' = NoResp

\* The handler answers and ends.
Respond(resp) ==
  /\ queue' = Tail(queue)
  /\ last' = resp

\* Variant: the catch block answers 500 without ROLLBACK.
Throw_NoRollback ==
  /\ Respond(Resp(cur, 500, {}, {}, {}))
  /\ txStatus' = TxAfterError
  /\ UNCHANGED <<db, committed>>

\* catch (err): the handler queues ROLLBACK.
Throw ==
  /\ Continue([cur EXCEPT !.pc = "rollback"])
  /\ txStatus' = TxAfterError
  /\ UNCHANGED <<db, committed>>

\* A write is durable at once outside a transaction block.
Write(d) ==
  /\ db' = d
  /\ committed' = IF txStatus = "idle" THEN d ELSE committed
  /\ txStatus' = txStatus

(***************************************************************************)
(* POST /api/community/posts/:id/upvote and .../downvote                   *)
(***************************************************************************)

\* authMiddleware, parseInt and the `!postId` check; then the first query
\* is queued.
ArriveWith(creds, params, intents) ==
  /\ started < MaxReq
  /\ Len(queue) < MaxInFlight
  /\ started' = started + 1
  /\ \E cred \in creds, param \in params, intent \in intents :
       LET postId == ParseInt(param)
           r0     == [NewReq EXCEPT !.userId = cred.userId, !.intent = intent]
       IN  IF authMiddleware(cred) # 0
           THEN /\ last' = [NoResp EXCEPT !.code = authMiddleware(cred),
                                          !.intent = intent]
                /\ queue' = queue
           ELSE IF Falsy(postId)
           THEN /\ last' = [Resp(r0, 400, {}, {}, {}) EXCEPT !.postId = postId]
                /\ queue' = queue
           ELSE /\ queue' = Append(queue, [r0 EXCEPT !.postId = postId.val])
                /\ last' = NoResp
  /\ UNCHANGED <<db, committed, txStatus, fails, issued>>

Arrive == ArriveWith(Credentials, IdParams, Intents)

\* postCheck: SELECT ... FROM posts; 404 when there is no row.
PostCheck ==
  \E inject \in BOOLEAN :
    /\ At("postCheck")
    /\ Inject(inject)
    /\ IF StmtError(inject)
       THEN Throw
       ELSE LET rows == SelectPost(db, cur.postId) IN
            /\ IF Len(rows) = 0
               THEN Respond(Resp(cur, 404, {}, {}, {}))
               ELSE Continue([cur EXCEPT !.pc = "voteCheck", !.post = rows[1]])
            /\ UNCHANGED <<db, committed, txStatus>>
    /\ UNCHANGED <<started, issued>>

\* voteCheck: SELECT vote_type FROM post_votes; the branch on its rows.
VoteCheck ==
  \E inject \in BOOLEAN :
    /\ At("voteCheck")
    /\ Inject(inject)
    /\ IF StmtError(inject)
       THEN Throw
       ELSE LET rows == SelectVote(db, cur.userId, cur.postId) IN
            /\ IF NoPriorVote(rows)
               THEN Continue([cur EXCEPT !.pc = "begin", !.voteCheck = rows,
                                         !.branch = "first"])
               ELSE IF AlreadyVoted(rows, cur.intent)
               THEN Respond(Resp(cur, 200, {FALSE}, {}, {}))
               ELSE Continue([cur EXCEPT !.pc = "begin", !.voteCheck = rows,
                                         !.branch = "switch"])
            /\ UNCHANGED <<db, committed, txStatus>>
    /\ UNCHANGED <<started, issued>>

\* BEGIN: opens a block; inside a block it only warns.
Begin ==
  \E inject \in BOOLEAN :
    /\ At("begin")
    /\ Inject(inject)
    /\ IF StmtError(inject)
       THEN Throw
       ELSE /\ Continue([cur EXCEPT !.pc = "ledger"])
            /\ txStatus' = "active"
            /\ UNCHANGED <<db, committed>>
    /\ UNCHANGED <<started, issued>>

\* INSERT INTO post_votes (first vote) or UPDATE post_votes (switch).
LedgerWrite ==
  \E inject \in BOOLEAN :
    /\ At("ledger")
    /\ Inject(inject)
    /\ IF \/ StmtError(inject)
          \/ /\ cur.branch = "first"
             /\ UniqueViolation(db, cur.userId, cur.postId)
       THEN Throw
       ELSE /\ Continue([cur EXCEPT !.pc = "counters"])
            /\ Write(LedgerWritten(db, cur))
    /\ UNCHANGED <<started, issued>>

\* UPDATE posts SET ... with the counters computed from the row read by
\* postCheck.
CounterUpdate ==
  \E inject \in BOOLEAN :
    /\ At("counters")
    /\ Inject(inject)
    /\ IF StmtError(inject)
       THEN Throw
       ELSE /\ Continue([cur EXCEPT !.pc = "commit"])
            /\ Write(CountersWritten(db, cur))
    /\ UNCHANGED <<started, issued>>

\* COMMIT: makes the block durable; ends a failed block by rolling it back
\* without raising an error; outside a block it only warns.  A COMMIT that
\* fails leaves the block rolled back.
Commit ==
  \E inject \in BOOLEAN :
    /\ At("commit")
    /\ Inject(inject)
    /\ txStatus' = "idle"
    /\ IF inject
       THEN /\ Continue([cur EXCEPT !.pc = "rollback"])
            /\ db' = committed
            /\ committed' = committed
       ELSE /\ Respond(VotedResp(cur))
            /\ IF txStatus = "active"
               THEN db' = db /\ committed' = db
               ELSE db' = committed /\ committed' = committed
    /\ UNCHANGED <<started, issued>>

\* Variant: the catch block answers 500 and leaves the block as it is.
Rollback_LeavesBlock ==
  /\ At("rollback")
  /\ Respond(Resp(cur, 500, {}, {}, {}))
  /\ UNCHANGED <<db, committed, txStatus, started, fails, issued>>

\* catch: ROLLBACK (its own failure is swallowed), then 500.
Rollback ==
  /\ At("rollback")
  /\ db' = committed
  /\ committed' = committed
  /\ txStatus' = "idle"
  /\ Respond(Resp(cur, 500, {}, {}, {}))
  /\ UNCHANGED <<started, fails, issued>>

Next ==
  \/ Arrive
  \/ PostCheck
  \/ VoteCheck
  \/ Begin
  \/ LedgerWrite
  \/ CounterUpdate
  \/ Commit
  \/ Rollback

Spec == Init /\ [][Next]_vars

\* Requests made one after another: a request arrives only when no other
\* request is being handled.
SeqArrive == queue = <<>> /\ Arrive

SeqNext ==
  \/ SeqArrive
  \/ PostCheck
  \/ VoteCheck
  \/ Begin
  \/ LedgerWrite
  \/ CounterUpdate
  \/ Commit
  \/ Rollback

SeqSpec == Init /\ [][SeqNext]_vars

Pcs ==
  {"postCheck", "voteCheck", "begin", "ledger", "counters", "commit",
   "rollback"}

TypeOK ==
  /\ txStatus \in {"idle", "active", "failed"}
  /\ started \in 0..MaxReq
  /\ fails \in 0..MaxFail
  /\ Len(queue) <= MaxInFlight
  /\ \A i \in 1..Len(queue) : queue[i].pc \in Pcs
  /\ txStatus = "idle" => db = committed

(***************************************************************************)
(* Restricted request mixes for the concurrency properties.                *)
(***************************************************************************)
Token(u) == [present |-> TRUE, valid |-> TRUE, userId |-> u]

\* Authenticated votes of any user and direction on post 1, arriving at
\* any point of the requests being handled.
RaceArrive == ArriveWith({Token(u) : u \in Users}, {<<"1">>}, Intents)

RaceNext ==
  \/ RaceArrive
  \/ PostCheck
  \/ VoteCheck
  \/ Begin
  \/ LedgerWrite
  \/ CounterUpdate
  \/ Commit
  \/ Rollback

RaceSpec == Init /\ [][RaceNext]_vars

\* The statements of the vote handlers.  The client runs the query at the
\* head of its queue as long as there is one, so a handler that waits for
\* a query is not left waiting for ever.
VoteSteps ==
  \/ PostCheck
  \/ VoteCheck
  \/ Begin
  \/ LedgerWrite
  \/ CounterUpdate
  \/ Commit
  \/ Rollback

RaceLiveSpec == Init /\ [][RaceNext]_vars /\ WF_vars(VoteSteps)

\* Two requests only: user 1 and then user 2 upvote post 1; the second may
\* arrive at any point of the first.
TwoUsersArrive ==
  /\ started < 2
  /\ ArriveWith({Token(started + 1)}, {<<"1">>}, {UP})

TwoUsersNext ==
  \/ TwoUsersArrive
  \/ PostCheck
  \/ VoteCheck
  \/ Begin
  \/ LedgerWrite
  \/ CounterUpdate
  \/ Commit
  \/ Rollback

TwoUsersSpec == Init /\ [][TwoUsersNext]_vars

\* Two requests only: user 1 upvotes and then downvotes post 1; the second
\* may arrive at any point of the first.
SameUserArrive ==
  /\ started < 2
  /\ ArriveWith({Token(1)}, {<<"1">>}, {IF started = 0 THEN UP ELSE DOWN})

SameUserNext ==
  \/ SameUserArrive
  \/ PostCheck
  \/ VoteCheck
  \/ Begin
  \/ LedgerWrite
  \/ CounterUpdate
  \/ Commit
  \/ Rollback

SameUserSpec == Init /\ [][SameUserNext]_vars

(***************************************************************************)
(* Users, roles and the role-gated routes (server.js:595-732, 812-852,     *)
(* 947-1021, 1250-1320, 1328-1365, 1441-1511).                             *)
(*                                                                         *)
(* The acting identity is what the token carries (userId, role), signed    *)
(* at registration or login and valid for a day: the role of a token is    *)
(* the role its user had when it was issued, which any later role change   *)
(* leaves behind.  Registration stores the role of the request body, so a  *)
(* token of any role exists for a user once registered.                    *)
(***************************************************************************)
MaxGateReq == 2      \* requests to the routes below in one behaviour
MaxUsers == 3        \* rows of table users in one behaviour

UserIds == 1..MaxUsers

\* req.body.role ("none": the field is absent)
RoleArgs == {"none", "user", "moderator", "admin", "deleted", "root"}

\* role claim of a token
TokenRoles == {"user", "moderator", "admin", "root"}

Titles == {"none", "t1"}      \* req.body.title ("none": absent or empty)
Texts == {"none", "c1"}       \* req.body.text ("none": absent or empty)
Names == {"none", "s1"}       \* req.body.name of a subcategory

GateCredentials(d) ==
  { [present |-> FALSE, valid |-> FALSE, userId |-> 0, role |-> "none"],
    [present |-> TRUE,  valid |-> FALSE, userId |-> 0, role |-> "none"] }
  \cup { [present |-> TRUE, valid |-> TRUE, userId |-> u, role |-> ro] :
           u \in DOMAIN d.users, ro \in TokenRoles }

\* The handler of a role-gated request: its position and local variables.
\* seen: what the handler keeps of the row its lookup returned (the role
\* of a user, the author of a post or comment).
GateReq ==
  [pc |-> "none", op |-> "none", userId |-> 0, role |-> "none",
   target |-> 0, arg |-> "none", seen |-> {}]

GateResp(r, code, success) ==
  [NoResp EXCEPT !.code = code, !.op = r.op, !.userId = r.userId,
                 !.role = r.role, !.target = r.target, !.arg = r.arg,
                 !.success = success]

\* SELECT id, username, role FROM users WHERE id = $1
SelectUser(d, id) ==
  IF id \in DOMAIN d.users THEN << d.users[id] >> ELSE <<>>

\* UPDATE users SET role = $2 WHERE id = $1
SetRole(d, id, newRole) ==
  IF id \in DOMAIN d.users THEN [d EXCEPT !.users[id].role = newRole] ELSE d

\* UPDATE users SET username = '[DELETED USER]', password_hash = NULL,
\*   role = 'deleted' WHERE id = $1
SoftDeleteUser(d, id) ==
  IF id \in DOMAIN d.users
  THEN [d EXCEPT !.users[id].username = "[DELETED USER]",
                 !.users[id].password_hash = "NULL",
                 !.users[id].role = "deleted"]
  ELSE d

\* allowedRoles.includes(newRole)
ValidRole(newRole) == newRole \in {"user", "moderator", "admin"}

\* Variant: a moderator may set any role on a target who is not an admin.
PutRoleGate_ModAnyRole(actingRole, newRole, targetRole) ==
  IF actingRole = "admin" THEN 0
  ELSE IF actingRole = "moderator"
  THEN IF targetRole = "admin" THEN 403 ELSE 0
  ELSE 403

\* PUT /api/users/:id/role, step 3: 0 when the change is allowed, else the
\* status answered.
PutRoleGate(actingRole, newRole, targetRole) ==
  IF actingRole = "admin" THEN 0
  ELSE IF actingRole = "moderator"
  THEN IF newRole # "moderator" THEN 403
       ELSE IF targetRole = "admin" THEN 403
       ELSE 0
  ELSE 403

\* promoteToModerator and DELETE /api/users/:id, step 1: only admin or
\* moderator.
ModOrAdminOnly(actingRole) ==
  IF actingRole # "admin" /\ actingRole # "moderator" THEN 403 ELSE 0

\* promoteToModerator, step 2: the target must not be an admin.
PromoteGate(targetRole) == IF targetRole = "admin" THEN 403 ELSE 0

\* Variant: a moderator may delete any target.
DeleteUserGate_NoAdminGuard(actingRole, targetRole) == 0

\* DELETE /api/users/:id: a moderator may not delete an admin.
DeleteUserGate(actingRole, targetRole) ==
  IF actingRole = "moderator" /\ targetRole = "admin" THEN 403 ELSE 0

(***************************************************************************)
(* Steps shared by the role-gated handlers.                                *)
(***************************************************************************)
\* A request is received: it is answered at once with `code` by the
\* middleware or by a check made before any query, or (code 0) its first
\* query is queued.
GateArrive(r, code) ==
  /\ started < MaxGateReq
  /\ Len(queue) < MaxInFlight
  /\ started' = started + 1
  /\ IF code # 0
     THEN queue' = queue /\ last' = GateResp(r, code, {})
     ELSE queue' = Append(queue, r) /\ last' = NoResp
  /\ UNCHANGED <<db, committed, txStatus, fails, issued>>

\* catch (err): 500, with no ROLLBACK.
GateThrow ==
  /\ Respond(GateResp(cur, 500, {}))
  /\ txStatus' = TxAfterError
  /\ UNCHANGED <<db, committed>>

\* What a handler keeps of the row it looked up.
RoleOf(row) == row.role
AuthorOf(row) == row.author_id
VisibleOf(row) == row.visible_to_others

\* The lookup of a handler: 404 when it finds no row, else the status of
\* the authorization check on the row, else the handler's next query.
\* gate and seen are the check's status and the kept field of rows[1]; they
\* are read only when a row was found.
GateFind(pc, rows, gate, seen, nextPc) ==
  \E inject \in BOOLEAN :
    /\ At(pc)
    /\ Inject(inject)
    /\ IF StmtError(inject)
       THEN GateThrow
       ELSE /\ IF Len(rows) = 0
               THEN Respond(GateResp(cur, 404, {}))
               ELSE IF gate # 0
               THEN Respond(GateResp(cur, gate, {}))
               ELSE Continue([cur EXCEPT !.pc = nextPc,
                                         !.seen = {seen}])
            /\ UNCHANGED <<db, committed, txStatus>>
    /\ UNCHANGED <<started, issued>>

\* The last statement of a handler, leaving the tables as d, and the
\* answer that follows it.
GateWrite(pc, d, code, success) ==
  \E inject \in BOOLEAN :
    /\ At(pc)
    /\ Inject(inject)
    /\ IF StmtError(inject)
       THEN GateThrow
       ELSE /\ Respond(GateResp(cur, code, success))
            /\ Write(d)
    /\ UNCHANGED <<started, issued>>

\* The same, for the two routes that sign a token: the answer 200 carries
\* the token.
GateWriteSigning(pc, d, code, success, token) ==
  \E inject \in BOOLEAN :
    /\ At(pc)
    /\ Inject(inject)
    /\ IF StmtError(inject)
       THEN GateThrow /\ issued' = issued
       ELSE /\ Respond(GateResp(cur, code, success))
            /\ Write(d)
            /\ issued' = IF code = 200 THEN issued \cup {token} ELSE issued
    /\ UNCHANGED started

(***************************************************************************)
(* PUT /api/users/:id/role                                                 *)
(***************************************************************************)
PutRoleArriveWith(creds, ids, roles) ==
  \E cred \in creds, id \in ids, newRole \in roles :
    GateArrive([GateReq EXCEPT !.pc = "putRole.find", !.op = "putRole",
                               !.userId = cred.userId, !.role = cred.role,
                               !.target = id, !.arg = newRole],
               IF authMiddleware(cred) # 0 THEN authMiddleware(cred)
               ELSE IF ~ValidRole(newRole) THEN 400
               ELSE 0)

PutRoleArrive == PutRoleArriveWith(GateCredentials(db), UserIds, RoleArgs)

PutRoleCheck(row) == PutRoleGate(cur.role, cur.arg, row.role)

PutRoleFind ==
  GateFind("putRole.find", SelectUser(db, cur.target),
           PutRoleCheck(SelectUser(db, cur.target)[1]),
           RoleOf(SelectUser(db, cur.target)[1]),
           "putRole.update")

PutRoleUpdate ==
  GateWrite("putRole.update", SetRole(db, cur.target, cur.arg), 200, {TRUE})

(***************************************************************************)
(* POST /api/users/:id/promoteToModerator                                  *)
(***************************************************************************)
PromoteArriveWith(creds, ids) ==
  \E cred \in creds, id \in ids :
    GateArrive([GateReq EXCEPT !.pc = "promote.find", !.op = "promote",
                               !.userId = cred.userId, !.role = cred.role,
                               !.target = id],
               IF authMiddleware(cred) # 0 THEN authMiddleware(cred)
               ELSE ModOrAdminOnly(cred.role))

PromoteArrive == PromoteArriveWith(GateCredentials(db), UserIds)

PromoteCheck(row) == PromoteGate(row.role)

PromoteFind ==
  GateFind("promote.find", SelectUser(db, cur.target),
           PromoteCheck(SelectUser(db, cur.target)[1]),
           RoleOf(SelectUser(db, cur.target)[1]),
           "promote.update")

PromoteUpdate ==
  GateWrite("promote.update", SetRole(db, cur.target, "moderator"), 200,
            {TRUE})

(***************************************************************************)
(* DELETE /api/users/:id                                                   *)
(***************************************************************************)
DeleteUserArriveWith(creds, ids) ==
  \E cred \in creds, id \in ids :
    GateArrive([GateReq EXCEPT !.pc = "deleteUser.find",
                               !.op = "deleteUser",
                               !.userId = cred.userId, !.role = cred.role,
                               !.target = id],
               IF authMiddleware(cred) # 0 THEN authMiddleware(cred)
               ELSE ModOrAdminOnly(cred.role))

DeleteUserArrive == DeleteUserArriveWith(GateCredentials(db), UserIds)

DeleteUserCheck(row) == DeleteUserGate(cur.role, row.role)

DeleteUserFind ==
  GateFind("deleteUser.find", SelectUser(db, cur.target),
           DeleteUserCheck(SelectUser(db, cur.target)[1]),
           RoleOf(SelectUser(db, cur.target)[1]),
           "deleteUser.update")

DeleteUserUpdate ==
  GateWrite("deleteUser.update", SoftDeleteUser(db, cur.target), 200,
            {TRUE})

(***************************************************************************)
(* POST /api/auth/register                                                 *)
(***************************************************************************)
\* `role || 'user'`
RoleOrUser(role) == IF role = "none" THEN "user" ELSE role

\* The id the sequence of table users gives next (rows are never removed).
NextUserId(d) == Cardinality(DOMAIN d.users) + 1

\* INSERT INTO users (username, password_hash, role) VALUES ($1, $2, $3)
InsertUser(d, role) ==
  LET id  == NextUserId(d)
      row == [username |-> NameOf(id), password_hash |-> "hash",
              role |-> role, visible_to_others |-> TRUE]
  IN  [d EXCEPT !.users = [u \in DOMAIN @ \cup {id} |->
                             IF u = id THEN row ELSE @[u]]]

RegistersQueued ==
  Cardinality({ i \in 1..Len(queue) : queue[i].pc = "register.insert" })

\* The body carries a username and a password, or lacks one of them.
RegisterArriveWith(completes, roles) ==
  /\ Cardinality(DOMAIN db.users) + RegistersQueued < MaxUsers
  /\ \E complete \in completes, role \in roles :
       GateArrive([GateReq EXCEPT !.pc = "register.insert",
                                  !.op = "register", !.arg = role],
                  IF ~complete THEN 400 ELSE 0)

RegisterArrive == RegisterArriveWith(BOOLEAN, RoleArgs)

\* The row inserted is signed into a token: its id and its role.
RegisterInsert ==
  GateWriteSigning("register.insert", InsertUser(db, RoleOrUser(cur.arg)),
                   200, {TRUE},
                   Signed(NextUserId(db), RoleOrUser(cur.arg)))

(***************************************************************************)
(* POST /api/auth/login                                                    *)
(***************************************************************************)
\* SELECT * FROM users WHERE username = $1, for the name user u registered
SelectByName(d, u) ==
  IF u \in DOMAIN d.users /\ d.users[u].username = NameOf(u)
  THEN << d.users[u] >> ELSE <<>>

\* target: the user whose registered name the body carries; arg: whether
\* the password is theirs.
LoginArrive ==
  \E u \in UserIds, password \in {"right", "wrong"} :
    GateArrive([GateReq EXCEPT !.pc = "login.select", !.op = "login",
                               !.target = u, !.arg = password], 0)

\* The row found is signed into a token: its id and its stored role.
LoginSelect ==
  GateWriteSigning("login.select", db,
                   IF Len(SelectByName(db, cur.target)) = 0 THEN 400
                   ELSE IF cur.arg # "right" THEN 400
                   ELSE 200,
                   {},
                   Signed(cur.target, SelectByName(db, cur.target)[1].role))

(***************************************************************************)
(* POST /api/profile                                                       *)
(***************************************************************************)
\* Variant: the profile update also resets the role.
SetProfile_WithRole(d, id, visible) ==
  IF id \in DOMAIN d.users
  THEN [d EXCEPT !.users[id].visible_to_others = visible,
                 !.users[id].role = "user"]
  ELSE d

\* UPDATE users SET first_name = $1, ..., visible_to_others = $10
\*   WHERE id = $11
SetProfile(d, id, visible) ==
  IF id \in DOMAIN d.users
  THEN [d EXCEPT !.users[id].visible_to_others = visible]
  ELSE d

\* arg: req.body.visibleToOthers; anything but a boolean is stored as true.
ProfileArrive ==
  \E cred \in GateCredentials(db), visible \in {"none", "false"} :
    GateArrive([GateReq EXCEPT !.pc = "profile.update", !.op = "profile",
                               !.userId = cred.userId, !.role = cred.role,
                               !.arg = visible],
               authMiddleware(cred))

ProfileUpdate ==
  GateWrite("profile.update", SetProfile(db, cur.userId, cur.arg # "false"),
            IF cur.userId \in DOMAIN db.users THEN 200 ELSE 404, {})

(***************************************************************************)
(* Rows of the tables with a sequence for id.                              *)
(***************************************************************************)
MaxRows == 3         \* ids a sequence gives in one behaviour

RowIds == 1..MaxRows

\* DELETE FROM <table> WHERE id = $1
Without(rows, id) == [x \in DOMAIN rows \ {id} |-> rows[x]]

\* INSERT INTO <table> ...: the row gets the next id of the sequence
With(rows, id, row) ==
  [x \in DOMAIN rows \cup {id} |-> IF x = id THEN row ELSE rows[x]]

\* Inserts of table t waiting in the client's queue.
InsertsQueued(pc) ==
  Cardinality({ i \in 1..Len(queue) : queue[i].pc = pc })

(***************************************************************************)
(* Subcategories: POST, PUT and DELETE /api/community/subcategories        *)
(* (registered without authMiddleware).                                    *)
(***************************************************************************)
\* What a token would resolve to, on a route that does not read it.
Presented(r, cred) ==
  IF authMiddleware(cred) = 0
  THEN [r EXCEPT !.userId = cred.userId, !.role = cred.role]
  ELSE r

\* INSERT INTO subcategories (name, description) VALUES ($1, $2)
InsertSubcat(d, name) ==
  [d EXCEPT !.subcategories = With(@, d.seq.subcategories + 1,
                                   [name |-> name]),
            !.seq.subcategories = @ + 1]

\* UPDATE subcategories SET name = $1, description = $2 WHERE id = $3
SetSubcat(d, id, name) ==
  IF id \in DOMAIN d.subcategories
  THEN [d EXCEPT !.subcategories[id].name = name]
  ELSE d

\* DELETE FROM subcategories WHERE id = $1
RemoveSubcat(d, id) == [d EXCEPT !.subcategories = Without(@, id)]

CreateSubcatArrive ==
  /\ db.seq.subcategories + InsertsQueued("createSubcat.insert") < MaxRows
  /\ \E cred \in GateCredentials(db), name \in Names :
       GateArrive(Presented([GateReq EXCEPT !.pc = "createSubcat.insert",
                                            !.op = "createSubcat",
                                            !.arg = name], cred),
                  IF name = "none" THEN 400 ELSE 0)

CreateSubcatInsert ==
  GateWrite("createSubcat.insert", InsertSubcat(db, cur.arg), 200, {})

PutSubcatArrive ==
  \E cred \in GateCredentials(db), id \in RowIds, name \in Names :
    GateArrive(Presented([GateReq EXCEPT !.pc = "putSubcat.update",
                                         !.op = "putSubcat",
                                         !.target = id, !.arg = name],
                         cred),
               0)

PutSubcatUpdate ==
  GateWrite("putSubcat.update", SetSubcat(db, cur.target, cur.arg),
            IF cur.target \in DOMAIN db.subcategories THEN 200 ELSE 404,
            {})

DeleteSubcatArrive ==
  \E cred \in GateCredentials(db), id \in RowIds :
    GateArrive(Presented([GateReq EXCEPT !.pc = "deleteSubcat.delete",
                                         !.op = "deleteSubcat",
                                         !.target = id], cred),
               0)

DeleteSubcatDelete ==
  GateWrite("deleteSubcat.delete", RemoveSubcat(db, cur.target),
            IF cur.target \in DOMAIN db.subcategories THEN 200 ELSE 404,
            IF cur.target \in DOMAIN db.subcategories THEN {TRUE} ELSE {})

(***************************************************************************)
(* Posts: POST, PUT and DELETE /api/community/posts                        *)
(***************************************************************************)
\* INSERT INTO posts (title, content, author_id, subcategory_id)
InsertPost(d, title, author) ==
  [d EXCEPT !.posts = With(@, d.seq.posts + 1,
                           [upvotes |-> 0, downvotes |-> 0,
                            title |-> title, author_id |-> author]),
            !.seq.posts = @ + 1]

\* SELECT author_id FROM posts WHERE id = $1
SelectPostAuthor(d, id) ==
  IF id \in DOMAIN d.posts THEN << d.posts[id] >> ELSE <<>>

\* UPDATE posts SET title = $1, content = $2, subcategory_id = $3
\*   WHERE id = $4
SetPost(d, id, title) ==
  IF id \in DOMAIN d.posts THEN [d EXCEPT !.posts[id].title = title] ELSE d

\* DELETE FROM posts WHERE id = $1
RemovePost(d, id) == [d EXCEPT !.posts = Without(@, id)]

\* Variant: only the author passes.
AuthorOrModGate_AuthorOnly(authorId, userId, role) ==
  IF authorId # userId THEN 403 ELSE 0

\* `!isAuthor && !isModOrAdmin` of post edit, post delete and comment
\* delete.
AuthorOrModGate(authorId, userId, role) ==
  IF authorId # userId /\ ~(role = "moderator" \/ role = "admin")
  THEN 403 ELSE 0

CreatePostArrive ==
  /\ db.seq.posts + InsertsQueued("createPost.find")
       + InsertsQueued("createPost.insert") < MaxRows
  /\ \E cred \in GateCredentials(db), title \in Titles :
       GateArrive([GateReq EXCEPT !.pc = "createPost.find",
                                  !.op = "createPost",
                                  !.userId = cred.userId,
                                  !.role = cred.role, !.arg = title],
                  authMiddleware(cred))

\* visible_to_others === false: 403; then `!title || !content`: 400
CreatePostCheck(row) ==
  IF row.visible_to_others = FALSE THEN 403
  ELSE IF cur.arg = "none" THEN 400
  ELSE 0

CreatePostFind ==
  GateFind("createPost.find", SelectUser(db, cur.userId),
           CreatePostCheck(SelectUser(db, cur.userId)[1]),
           VisibleOf(SelectUser(db, cur.userId)[1]),
           "createPost.insert")

CreatePostInsert ==
  GateWrite("createPost.insert", InsertPost(db, cur.arg, cur.userId), 200,
            {})

PutPostArrive ==
  \E cred \in GateCredentials(db), id \in RowIds, title \in Titles :
    GateArrive([GateReq EXCEPT !.pc = "putPost.find", !.op = "putPost",
                               !.userId = cred.userId, !.role = cred.role,
                               !.target = id, !.arg = title],
               authMiddleware(cred))

PostCheckAuthor(row) == AuthorOrModGate(row.author_id, cur.userId, cur.role)

PutPostFind ==
  GateFind("putPost.find", SelectPostAuthor(db, cur.target),
           PostCheckAuthor(SelectPostAuthor(db, cur.target)[1]),
           AuthorOf(SelectPostAuthor(db, cur.target)[1]),
           "putPost.update")

PutPostUpdate ==
  GateWrite("putPost.update", SetPost(db, cur.target, cur.arg),
            IF cur.target \in DOMAIN db.posts THEN 200 ELSE 404, {})

DeletePostArrive ==
  \E cred \in GateCredentials(db), id \in RowIds :
    GateArrive([GateReq EXCEPT !.pc = "deletePost.find",
                               !.op = "deletePost",
                               !.userId = cred.userId, !.role = cred.role,
                               !.target = id],
               authMiddleware(cred))

DeletePostFind ==
  GateFind("deletePost.find", SelectPostAuthor(db, cur.target),
           PostCheckAuthor(SelectPostAuthor(db, cur.target)[1]),
           AuthorOf(SelectPostAuthor(db, cur.target)[1]),
           "deletePost.delete")

DeletePostDelete ==
  GateWrite("deletePost.delete", RemovePost(db, cur.target), 200, {TRUE})

(***************************************************************************)
(* Comments: POST, PUT and DELETE /api/community/comments                  *)
(***************************************************************************)
\* INSERT INTO comments (post_id, author_id, text) VALUES ($1, $2, $3)
InsertComment(d, author, text) ==
  [d EXCEPT !.comments = With(@, d.seq.comments + 1,
                              [author_id |-> author, text |-> text]),
            !.seq.comments = @ + 1]

\* SELECT author_id FROM comments WHERE id = $1
SelectCommentAuthor(d, id) ==
  IF id \in DOMAIN d.comments THEN << d.comments[id] >> ELSE <<>>

\* UPDATE comments SET text = $1 WHERE id = $2
SetComment(d, id, text) ==
  IF id \in DOMAIN d.comments
  THEN [d EXCEPT !.comments[id].text = text]
  ELSE d

\* DELETE FROM comments WHERE id = $1
RemoveComment(d, id) == [d EXCEPT !.comments = Without(@, id)]

\* Variant: a moderator or an admin may edit too.
AuthorGate_ModOverride(authorId, userId, role) ==
  AuthorOrModGate(authorId, userId, role)

\* `!isAuthor` of comment edit.
AuthorGate(authorId, userId, role) == IF authorId # userId THEN 403 ELSE 0

\* registered without authMiddleware; target: req.body.author_id (0: the
\* body lacks post_id or author_id)
CreateCommentArrive ==
  /\ db.seq.comments + InsertsQueued("createComment.insert") < MaxRows
  /\ \E cred \in GateCredentials(db), author \in {0} \cup UserIds,
        text \in Texts :
       GateArrive(Presented([GateReq EXCEPT !.pc = "createComment.insert",
                                            !.op = "createComment",
                                            !.target = author,
                                            !.arg = text], cred),
                  IF author = 0 \/ text = "none" THEN 400 ELSE 0)

CreateCommentInsert ==
  GateWrite("createComment.insert", InsertComment(db, cur.target, cur.arg),
            200, {})

PutCommentArrive ==
  \E cred \in GateCredentials(db), id \in RowIds, text \in Texts :
    GateArrive([GateReq EXCEPT !.pc = "putComment.find",
                               !.op = "putComment",
                               !.userId = cred.userId, !.role = cred.role,
                               !.target = id, !.arg = text],
               IF authMiddleware(cred) # 0 THEN authMiddleware(cred)
               ELSE IF text = "none" THEN 400
               ELSE 0)

PutCommentCheck(row) == AuthorGate(row.author_id, cur.userId, cur.role)

PutCommentFind ==
  GateFind("putComment.find", SelectCommentAuthor(db, cur.target),
           PutCommentCheck(SelectCommentAuthor(db, cur.target)[1]),
           AuthorOf(SelectCommentAuthor(db, cur.target)[1]),
           "putComment.update")

PutCommentUpdate ==
  GateWrite("putComment.update", SetComment(db, cur.target, cur.arg), 200,
            {})

DeleteCommentArrive ==
  \E cred \in GateCredentials(db), id \in RowIds :
    GateArrive([GateReq EXCEPT !.pc = "deleteComment.find",
                               !.op = "deleteComment",
                               !.userId = cred.userId, !.role = cred.role,
                               !.target = id],
               authMiddleware(cred))

DeleteCommentCheck(row) ==
  AuthorOrModGate(row.author_id, cur.userId, cur.role)

DeleteCommentFind ==
  GateFind("deleteComment.find", SelectCommentAuthor(db, cur.target),
           DeleteCommentCheck(SelectCommentAuthor(db, cur.target)[1]),
           AuthorOf(SelectCommentAuthor(db, cur.target)[1]),
           "deleteComment.delete")

DeleteCommentDelete ==
  GateWrite("deleteComment.delete", RemoveComment(db, cur.target), 200,
            {TRUE})

(***************************************************************************)
(* Discount events: PUT and DELETE /api/discount-events/:id (no            *)
(* authMiddleware).                                                        *)
(***************************************************************************)
\* UPDATE discount_events SET store_id = $1, item_name = $2, ...
\*   WHERE id = $19
SetEvent(d, id, item) ==
  IF id \in DOMAIN d.discount_events
  THEN [d EXCEPT !.discount_events[id].item_name = item]
  ELSE d

\* DELETE FROM discount_events WHERE id = $1
RemoveEvent(d, id) == [d EXCEPT !.discount_events = Without(@, id)]

PutEventArrive ==
  \E id \in RowIds :
    GateArrive([GateReq EXCEPT !.pc = "putEvent.update", !.op = "putEvent",
                               !.target = id, !.arg = "i1"], 0)

PutEventUpdate ==
  GateWrite("putEvent.update", SetEvent(db, cur.target, cur.arg),
            IF cur.target \in DOMAIN db.discount_events THEN 200 ELSE 404,
            {})

DeleteEventArrive ==
  \E id \in RowIds :
    GateArrive([GateReq EXCEPT !.pc = "deleteEvent.delete",
                               !.op = "deleteEvent", !.target = id], 0)

DeleteEventDelete ==
  GateWrite("deleteEvent.delete", RemoveEvent(db, cur.target),
            IF cur.target \in DOMAIN db.discount_events THEN 200 ELSE 404,
            IF cur.target \in DOMAIN db.discount_events THEN {TRUE}
            ELSE {})

(***************************************************************************)
(* The role-gated routes, requests made one after another, from the        *)
(* populated database.                                                     *)
(***************************************************************************)
GateSteps ==
  \/ PutRoleFind \/ PutRoleUpdate
  \/ PromoteFind \/ PromoteUpdate
  \/ DeleteUserFind \/ DeleteUserUpdate
  \/ RegisterInsert
  \/ PutSubcatUpdate \/ DeleteSubcatDelete
  \/ PutPostFind \/ PutPostUpdate
  \/ DeletePostFind \/ DeletePostDelete
  \/ PutCommentFind \/ PutCommentUpdate
  \/ DeleteCommentFind \/ DeleteCommentDelete

GateSeqNext ==
  \/ queue = <<>> /\ PutRoleArrive
  \/ queue = <<>> /\ PromoteArrive
  \/ queue = <<>> /\ DeleteUserArrive
  \/ queue = <<>> /\ RegisterArrive
  \/ queue = <<>> /\ PutSubcatArrive
  \/ queue = <<>> /\ DeleteSubcatArrive
  \/ queue = <<>> /\ PutPostArrive
  \/ queue = <<>> /\ DeletePostArrive
  \/ queue = <<>> /\ PutCommentArrive
  \/ queue = <<>> /\ DeleteCommentArrive
  \/ GateSteps

GateSeqSpec == Init /\ [][GateSeqNext]_vars

\* Every route of the model, requests made one after another.
OtherSteps ==
  \/ LoginSelect
  \/ ProfileUpdate
  \/ CreateSubcatInsert
  \/ CreatePostFind \/ CreatePostInsert
  \/ CreateCommentInsert
  \/ PutEventUpdate \/ DeleteEventDelete

AppSeqNext ==
  \/ GateSeqNext
  \/ SeqNext
  \/ queue = <<>> /\ LoginArrive
  \/ queue = <<>> /\ ProfileArrive
  \/ queue = <<>> /\ CreateSubcatArrive
  \/ queue = <<>> /\ CreatePostArrive
  \/ queue = <<>> /\ CreateCommentArrive
  \/ queue = <<>> /\ PutEventArrive
  \/ queue = <<>> /\ DeleteEventArrive
  \/ OtherSteps

AppSeqSpec == Init /\ [][AppSeqNext]_vars

(***************************************************************************)
(* Role changes and deletions of user 2 by tokens of user 1, a request     *)
(* arriving at any point of the one being handled.                         *)
(***************************************************************************)
RaceCallers ==
  { [present |-> TRUE, valid |-> TRUE, userId |-> 1, role |-> ro] :
      ro \in {"user", "moderator", "admin"} }

RolesRaceNext ==
  \/ PutRoleArriveWith(RaceCallers, {2}, RoleArgs)
  \/ PromoteArriveWith(RaceCallers, {2})
  \/ DeleteUserArriveWith(RaceCallers, {2})
  \/ PutRoleFind \/ PutRoleUpdate
  \/ PromoteFind \/ PromoteUpdate
  \/ DeleteUserFind \/ DeleteUserUpdate

RolesRaceSpec == Init /\ [][RolesRaceNext]_vars

(***************************************************************************)
(* POST /api/restaurants: geocoding, then upsert by name.                  *)
(*                                                                         *)
(* The handler awaits the geocoding call before its only query.  Between   *)
(* the request and the answer of the geocoder it touches nothing shared,   *)
(* so the call is part of the arrival step: the step draws the outcome of  *)
(* the call, runs the checks on it and queues the upsert.                  *)
(***************************************************************************)
RNames == {"r1", "r2"}        \* req.body.name; req.body.address is "a1"

\* A document of the geocoder: whether it carries road_address, address.
KakaoDocs == [road_address : BOOLEAN, address : BOOLEAN]

\* Outcomes of axios.get: it throws, or response.data carries no
\* `documents` ({}), or a list of documents of length 0 or 1 ({list}).
GeoResults ==
  { [threw |-> TRUE, documents |-> {}] }
  \cup { [threw |-> FALSE, documents |-> o] :
           o \in {{}, {<<>>}} \cup { {<<doc>>} : doc \in KakaoDocs } }

\* Variant: only an absent list is refused.
NoDocs_AbsentOnly(documents) == documents = {}

\* `!docs || docs.length === 0`
NoDocs(documents) == documents = {} \/ \E docs \in documents : Len(docs) = 0

\* parseKakaoDoc(docs[0]) throws a TypeError when docs[0] is undefined and
\* when the document has neither road_address nor address.
ParseThrows(docs) ==
  Len(docs) = 0 \/ (~docs[1].road_address /\ ~docs[1].address)

\* parseKakaoDoc: lon and lat come from road_address when there is one,
\* else from address.
parseKakaoDoc(doc) == IF doc.road_address THEN "road" ELSE "addr"

\* The status answered before the upsert (0: the upsert is queued).
GeocodeCode(result) ==
  IF result.threw THEN 500
  ELSE IF NoDocs(result.documents) THEN 400
  ELSE IF \E docs \in result.documents : ParseThrows(docs) THEN 500
  ELSE 0

\* The point kept for the upsert.
GeocodeSeen(result) ==
  IF GeocodeCode(result) # 0 THEN {}
  ELSE { parseKakaoDoc(docs[1]) : docs \in result.documents }

\* INSERT INTO restaurants (...) ON CONFLICT (name) DO UPDATE SET ...
UpsertRestaurant(d, name, address, geom) ==
  [d EXCEPT !.restaurants = With(@, name, [full_address |-> address,
                                           geom |-> geom])]

\* arg: name; seen: lon and lat parsed
CreateRestaurantArriveWith(names, results) ==
  \E name \in names, result \in results :
    GateArrive([GateReq EXCEPT !.pc = "createRestaurant.upsert",
                               !.op = "createRestaurant",
                               !.arg = name,
                               !.seen = GeocodeSeen(result)],
               GeocodeCode(result))

CreateRestaurantArrive == CreateRestaurantArriveWith(RNames, GeoResults)

CreateRestaurantUpsert ==
  /\ At("createRestaurant.upsert")
  /\ \E geom \in cur.seen :
       GateWrite("createRestaurant.upsert",
                 UpsertRestaurant(db, cur.arg, "a1", geom), 200, {TRUE})

(***************************************************************************)
(* POST /api/stores                                                        *)
(***************************************************************************)
\* store_name of the body ("none": the body lacks store_name or address)
StoreNames == {"none", "n1"}

\* INSERT INTO stores (store_name, address, store_hours)
InsertStore(d, name) ==
  [d EXCEPT !.stores = With(@, d.seq.stores + 1, [store_name |-> name]),
            !.seq.stores = @ + 1]

CreateStoreArrive ==
  /\ db.seq.stores + InsertsQueued("createStore.insert") < MaxRows
  /\ \E name \in StoreNames :
       GateArrive([GateReq EXCEPT !.pc = "createStore.insert",
                                  !.op = "createStore", !.arg = name],
                  IF name = "none" THEN 400 ELSE 0)

CreateStoreInsert ==
  GateWrite("createStore.insert", InsertStore(db, cur.arg), 200, {TRUE})

(***************************************************************************)
(* POST /api/discount-events                                               *)
(***************************************************************************)
\* item_name of the body ("none": the body carries neither discount_price
\* nor discount_percentage, nor any other field)
EventItems == {"none", "i1"}

\* The check constraint of table discount_events: at least one discount
\* field is present.
CheckViolation(item) == item = "none"

\* INSERT INTO discount_events (store_id, item_name, ...)
InsertEvent(d, item) ==
  [d EXCEPT !.discount_events = With(@, d.seq.discount_events + 1,
                                     [item_name |-> item]),
            !.seq.discount_events = @ + 1]

\* The body is passed to the INSERT as it is.
CreateEventArrive ==
  /\ db.seq.discount_events + InsertsQueued("createEvent.insert") < MaxRows
  /\ \E item \in EventItems :
       GateArrive([GateReq EXCEPT !.pc = "createEvent.insert",
                                  !.op = "createEvent", !.arg = item], 0)

\* The INSERT is refused by the check constraint, or runs.
CreateEventInsert ==
  \E inject \in BOOLEAN :
    /\ At("createEvent.insert")
    /\ Inject(inject)
    /\ IF StmtError(inject) \/ CheckViolation(cur.arg)
       THEN GateThrow
       ELSE /\ Respond(GateResp(cur, 200, {}))
            /\ Write(InsertEvent(db, cur.arg))
    /\ UNCHANGED <<started, issued>>

(***************************************************************************)
(* The create routes, requests made one after another.                     *)
(***************************************************************************)
CreateSeqNext ==
  \/ queue = <<>> /\ CreateRestaurantArrive
  \/ queue = <<>> /\ CreateStoreArrive
  \/ queue = <<>> /\ CreateEventArrive
  \/ queue = <<>> /\ CreateSubcatArrive
  \/ queue = <<>> /\ CreatePostArrive
  \/ queue = <<>> /\ CreateCommentArrive
  \/ queue = <<>> /\ RegisterArrive
  \/ CreateRestaurantUpsert
  \/ CreateStoreInsert
  \/ CreateEventInsert
  \/ CreateSubcatInsert
  \/ CreatePostFind \/ CreatePostInsert
  \/ CreateCommentInsert
  \/ RegisterInsert

CreateSeqSpec == Init /\ [][CreateSeqNext]_vars

(***************************************************************************)
(* GET /api/restaurants: the WHERE clause built from req.query.            *)
(***************************************************************************)
\* The boolean columns, in the order the handler adds their conditions.
FlagColumns ==
  << "english_speaking", "vegan", "vegetarian", "no_pork", "halal",
     "no_beef", "gluten_free", "allows_foreigners" >>

\* A query-string value of a flag ("none": the parameter is absent).
FlagParams == {"none", "true", "false"}

\* req.query.name ("none": absent; "": empty)
NameParams == {"none", "", "abc"}

\* minLat, maxLat, minLon, maxLon as strings (<<>>: absent): no box, a
\* whole box, a box whose maxLon is not a number.
BoxParams ==
  { [minLat |-> <<>>, maxLat |-> <<>>, minLon |-> <<>>, maxLon |-> <<>>],
    [minLat |-> <<"1">>, maxLat |-> <<"2">>, minLon |-> <<"0">>,
     maxLon |-> <<"9">>],
    [minLat |-> <<"1">>, maxLat |-> <<"2">>, minLon |-> <<"0">>,
     maxLon |-> <<"x">>] }

Queries ==
  [name : NameParams, box : BoxParams,
   flags : [1..Len(FlagColumns) -> FlagParams]]

\* parseFloat of a string without point or exponent: the number parseInt
\* reads; NaN for an absent parameter.
ParseFloat(s) == ParseInt(s)

\* A bound value of the statement.
NumValue(n) == [kind |-> "num", num |-> n, str |-> "", bool |-> FALSE]
StrValue(s) == [kind |-> "str", num |-> 0, str |-> s, bool |-> FALSE]
BoolValue(b) == [kind |-> "bool", num |-> 0, str |-> "", bool |-> b]

\* `%${name}%`
Pattern(name) == "%" \o name \o "%"

\* parseBool: true, false, or null ({}).
parseBool(val) ==
  IF val = "true" THEN {TRUE} ELSE IF val = "false" THEN {FALSE} ELSE {}

\* Variant: a placeholder is numbered after the conditions so far.
Placeholder_ByCondition(f, k) == Len(f.conditions) + k

\* `$${values.length + k}`
Placeholder(f, k) == Len(f.values) + k

\* The conditions and the bound values so far; a condition is the column it
\* tests and the placeholders it holds, in the order they appear in it.
NoFilter == [conditions |-> <<>>, values |-> <<>>]

\* A) the bounding box, when the four numbers parse.
AddBox(f, box) ==
  LET minLatF == ParseFloat(box.minLat)
      maxLatF == ParseFloat(box.maxLat)
      minLonF == ParseFloat(box.minLon)
      maxLonF == ParseFloat(box.maxLon)
  IN  IF ~minLatF.nan /\ ~maxLatF.nan /\ ~minLonF.nan /\ ~maxLonF.nan
      THEN [conditions |->
              Append(f.conditions,
                     [column |-> "geom",
                      placeholders |-> << Placeholder(f, 1),
                                          Placeholder(f, 2),
                                          Placeholder(f, 3),
                                          Placeholder(f, 4) >>]),
            values |-> f.values \o << NumValue(minLonF.val),
                                      NumValue(minLatF.val),
                                      NumValue(maxLonF.val),
                                      NumValue(maxLatF.val) >>]
      ELSE f

\* B) `if (name)`: name ILIKE $n
AddName(f, name) ==
  IF name # "none" /\ name # ""
  THEN [conditions |-> Append(f.conditions,
                              [column |-> "name",
                               placeholders |-> << Placeholder(f, 1) >>]),
        values |-> Append(f.values, StrValue(Pattern(name)))]
  ELSE f

\* addBoolCondition(column, queryVal)
addBoolCondition(f, column, queryVal) ==
  IF parseBool(queryVal) # {}
  THEN [conditions |-> Append(f.conditions,
                              [column |-> column,
                               placeholders |-> << Placeholder(f, 1) >>]),
        values |-> f.values
                     \o [i \in 1..1 |->
                           BoolValue(CHOOSE b \in parseBool(queryVal) : TRUE)]]
  ELSE f

\* The eight calls of addBoolCondition, the first n of them.
RECURSIVE AddFlags(_, _, _)
AddFlags(f, flags, n) ==
  IF n = 0 THEN f
  ELSE addBoolCondition(AddFlags(f, flags, n - 1), FlagColumns[n], flags[n])

\* conditions, values, and whether ' WHERE ' is added to the statement.
BuildFilter(q) ==
  LET f == AddFlags(AddName(AddBox(NoFilter, q.box), q.name), q.flags,
                    Len(FlagColumns))
  IN  [conditions |-> f.conditions, values |-> f.values,
       where |-> Len(f.conditions) > 0]

\* The request is received: the statement is built and queued.
ListRestaurantsArrive ==
  \E q \in Queries :
    GateArrive([pc |-> "listRestaurants.select", op |-> "listRestaurants",
                userId |-> 0, role |-> "none", target |-> 0,
                arg |-> "none", seen |-> {},
                query |-> q, filter |-> BuildFilter(q)], 0)

\* D), E): the SELECT, then the rows.
ListRestaurantsSelect ==
  GateWrite("listRestaurants.select", db, 200, {})

\* Requests made one after another.
ListNext ==
  \/ queue = <<>> /\ ListRestaurantsArrive
  \/ ListRestaurantsSelect

ListSpec == Init /\ [][ListNext]_vars

(***************************************************************************)
(* Accounts, tokens and the role routes: every caller presents a token     *)
(* that was signed by register or login.  Requests are made one after      *)
(* another, from the populated database or from one with staff: user 1     *)
(* registered with role admin in the body, user 2 registered with the      *)
(* default role, was made moderator by user 1 and logged in again.         *)
(***************************************************************************)
StaffDb ==
  [FreshDb EXCEPT !.users[1].role = "admin", !.users[2].role = "moderator"]

StaffTokens == {Signed(1, "admin"), Signed(2, "user"), Signed(2, "moderator")}

TokenInit ==
  /\ \E start \in { <<FreshDb, FreshTokens>>, <<StaffDb, StaffTokens>> } :
       /\ db = start[1]
       /\ committed = start[1]
       /\ issued = start[2]
  /\ txStatus = "idle"
  /\ queue = <<>>
  /\ last = NoResp
  /\ started = 0
  /\ fails = 0

\* What authMiddleware decodes from the tokens signed so far.
IssuedCredentials ==
  { [present |-> TRUE, valid |-> TRUE, userId |-> t.userId, role |-> t.role] :
      t \in issued }

TokenNext ==
  \/ queue = <<>> /\ RegisterArrive
  \/ queue = <<>> /\ LoginArrive
  \/ queue = <<>> /\ PutRoleArriveWith(IssuedCredentials, UserIds, RoleArgs)
  \/ queue = <<>> /\ PromoteArriveWith(IssuedCredentials, UserIds)
  \/ queue = <<>> /\ DeleteUserArriveWith(IssuedCredentials, UserIds)
  \/ RegisterInsert
  \/ LoginSelect
  \/ PutRoleFind \/ PutRoleUpdate
  \/ PromoteFind \/ PromoteUpdate
  \/ DeleteUserFind \/ DeleteUserUpdate

TokenSpec == TokenInit /\ [][TokenNext]_vars

(***************************************************************************)
(* Properties.                                                             *)
(***************************************************************************)

\* Rows of post_votes for post p with vote_type v, over all users.
VoteCount(d, p, v) ==
  Cardinality({ x \in UNION { { <<u, i>> :
                                i \in 1..Len(d.post_votes[<<u, p>>]) } :
                              u \in Users } :
                d.post_votes[<<x[1], p>>][x[2]] = v })

Consistent(d) ==
  \A p \in Posts :
    /\ d.posts[p].upvotes = VoteCount(d, p, UP)
    /\ d.posts[p].downvotes = VoteCount(d, p, DOWN)

\* A step of the handler at the head of the queue (not an arrival).
HandlerStep == queue # <<>> /\ started' = started

\* C1 (SeqSpec): with requests made one after another, the counters of
\* every post equal the numbers of ledger rows with +1 and -1 for it, in
\* the committed tables at every moment and on the connection whenever no
\* transaction is open, so after every call and not only at the end.
C1_CountersMatchLedger ==
  /\ Consistent(committed)
  /\ txStatus = "idle" => Consistent(db)

\* A switch to a downvote has just been answered and post 1 carries the
\* downvotes of both users.
C1_Witness ==
  /\ queue = <<>>
  /\ last.code = 200 /\ last.upvotes # {} /\ last.downvotes # {}
  /\ db.posts[1].downvotes = 2
  /\ VoteCount(db, 1, DOWN) = 2

\* C2 (TwoUsersSpec): two upvotes by two distinct users on the same fresh
\* post, with no storage failure, are both answered success:true and leave
\* upvotes = 2 with two +1 ledger rows, however their statements interleave.
C2_ConcurrentUpvotesBothCount ==
  fails = 0 =>
    /\ last.code # 0 => last.code = 200 /\ last.success = {TRUE}
    /\ started = 2 /\ queue = <<>> =>
         /\ db.post_votes[<<1, 1>>] = <<UP>>
         /\ db.post_votes[<<2, 1>>] = <<UP>>
         /\ db.posts[1].upvotes = 2
         /\ committed = db

\* C3 (SameUserSpec): an upvote and a downvote by the same user on the
\* same fresh post, with no storage failure, end in the state that one of
\* the two serial orders produces: one ledger row, and the counters of it.
C3_SameUserSerializes ==
  fails = 0 /\ started = 2 /\ queue = <<>> =>
    /\ committed = db
    /\ \/ db = [FreshDb EXCEPT !.post_votes[<<1, 1>>] = <<DOWN>>,
                               !.posts[1].downvotes = 1]
       \/ db = [FreshDb EXCEPT !.post_votes[<<1, 1>>] = <<UP>>,
                               !.posts[1].upvotes = 1]

\* C4 (SeqSpec): the ledger write and the counter update of a request are
\* one unit.  A request answers 500 only with the transaction rolled back
\* (no block open, the connection back on the committed tables); only a
\* step that answers success:true changes the committed tables, so a
\* request that ends in 500 leaves them as they were before it; and the
\* committed tables never hold a ledger row without its count.
C4_AtomicUnit ==
  /\ [](/\ last.code = 500 => txStatus = "idle" /\ db = committed
        /\ Consistent(committed))
  /\ [][last'.success # {TRUE} => committed' = committed]_vars

\* A storage failure has struck after the ledger write of a request: the
\* block is in the failed state, the ledger row is written and not
\* committed, and the handler has queued ROLLBACK.
C4_Witness ==
  /\ At("rollback")
  /\ txStatus = "failed"
  /\ db.post_votes # committed.post_votes
  /\ db.posts = committed.posts

C6_CountersNonNegative ==
  \A p \in Posts, d \in {db, committed} :
    d.posts[p].upvotes >= 0 /\ d.posts[p].downvotes >= 0

\* C7 (RaceSpec): when the ledger read of a request succeeds and shows the
\* user's row already in the direction asked for, the request is answered
\* success:false without counters, and the ledger and the counters are
\* unchanged.
C7_RepeatIsNoOp ==
  [][( /\ HandlerStep
       /\ cur.pc = "voteCheck"
       /\ txStatus # "failed" /\ fails' = fails
       /\ db.post_votes[<<cur.userId, cur.postId>>] = <<cur.intent>> )
     => /\ last'.code = 200 /\ last'.success = {FALSE}
        /\ last'.userId = cur.userId
        /\ last'.postId = [nan |-> FALSE, val |-> cur.postId]
        /\ last'.intent = cur.intent
        /\ last'.upvotes = {} /\ last'.downvotes = {}
        /\ db' = db /\ committed' = committed]_vars

\* A repeated downvote has just been answered success:false.
C7_Witness ==
  /\ last.code = 200 /\ last.success = {FALSE} /\ last.intent = DOWN
  /\ ~last.postId.nan
  /\ db.post_votes[<<last.userId, last.postId.val>>] = <<DOWN>>

\* The counter of direction v in a row of posts.
CounterOf(row, v) == IF v = UP THEN row.upvotes ELSE row.downvotes

\* C8 (SeqSpec): with requests made one after another, a vote against the
\* user's existing opposite row flips that row, takes exactly 1 from the
\* old direction's counter and adds exactly 1 to the new direction's (their
\* sum is unchanged), changes nothing else, and is answered success:true
\* with both new counters.
C8_Reversal ==
  [][( /\ HandlerStep
       /\ cur.pc = "commit"
       /\ committed.post_votes[<<cur.userId, cur.postId>>] = <<0 - cur.intent>>
       /\ last'.code = 200 )
     => LET k   == <<cur.userId, cur.postId>>
            old == committed.posts[cur.postId]
            new == committed'.posts[cur.postId]
        IN  /\ committed' = db'
            /\ db'.post_votes = [committed.post_votes EXCEPT ![k] = <<cur.intent>>]
            /\ CounterOf(new, cur.intent) = CounterOf(old, cur.intent) + 1
            /\ CounterOf(new, 0 - cur.intent) = CounterOf(old, 0 - cur.intent) - 1
            /\ new.upvotes + new.downvotes = old.upvotes + old.downvotes
            /\ \A q \in Posts \ {cur.postId} :
                 committed'.posts[q] = committed.posts[q]
            /\ last'.success = {TRUE}
            /\ last'.upvotes = {new.upvotes}
            /\ last'.downvotes = {new.downvotes}]_vars

\* An upvote followed by a downvote of the same user, on a post another
\* user has upvoted: the answer carries upvotes 1, downvotes 1.
C8_Witness ==
  /\ last.code = 200 /\ last.intent = DOWN
  /\ last.upvotes = {1} /\ last.downvotes = {1}
  /\ ~last.postId.nan
  /\ db.post_votes[<<last.userId, last.postId.val>>] = <<DOWN>>
  /\ db.posts[last.postId.val].upvotes = 1
  /\ db.posts[last.postId.val].downvotes = 1

\* C9 (SeqSpec): with requests made one after another, the vote of a user
\* who has no row for an existing post inserts the row with the direction
\* asked for, makes the matching counter its stored value plus exactly 1,
\* leaves the other counter and everything else alone, and is answered
\* success:true with the new value of the matching counter only.
C9_FirstVote ==
  [][( /\ HandlerStep
       /\ cur.pc = "commit"
       /\ committed.post_votes[<<cur.userId, cur.postId>>] = <<>>
       /\ last'.code = 200 )
     => LET k   == <<cur.userId, cur.postId>>
            old == committed.posts[cur.postId]
            new == committed'.posts[cur.postId]
        IN  /\ committed' = db'
            /\ db'.post_votes = [committed.post_votes EXCEPT ![k] = <<cur.intent>>]
            /\ CounterOf(new, cur.intent) = CounterOf(old, cur.intent) + 1
            /\ CounterOf(new, 0 - cur.intent) = CounterOf(old, 0 - cur.intent)
            /\ \A q \in Posts \ {cur.postId} :
                 committed'.posts[q] = committed.posts[q]
            /\ last'.success = {TRUE}
            /\ IF cur.intent = UP
               THEN last'.upvotes = {new.upvotes} /\ last'.downvotes = {}
               ELSE last'.downvotes = {new.downvotes} /\ last'.upvotes = {}]_vars

\* User B's first downvote on a post user A has downvoted: downvotes 2.
C9_Witness ==
  /\ last.code = 200 /\ last.success = {TRUE} /\ last.intent = DOWN
  /\ last.upvotes = {} /\ last.downvotes = {2}
  /\ ~last.postId.nan
  /\ db.posts[last.postId.val].downvotes = 2

\* The parsed id of an answered request names no row of posts.
NoSuchPost(v) == v.nan \/ v.val \notin Posts

\* C10 as claimed (SeqSpec): every authenticated vote request whose post id
\* references no existing post is answered 404.
C10_MissingPostIs404 ==
  last.code \notin {0, 401} /\ NoSuchPost(last.postId) => last.code = 404

\* C10 as amended (SeqSpec): such a request is answered 400 when parseInt
\* gives NaN or 0, and otherwise 404, or 500 when its post lookup fails;
\* its handler never gets past the post lookup, and the step that answers
\* 400 or 404 leaves the ledger and all counters unchanged.
C10_MissingPostIs400Or404 ==
  /\ [](/\ last.code \notin {0, 401} /\ NoSuchPost(last.postId) =>
             IF last.postId.nan \/ last.postId.val = 0
             THEN last.code = 400
             ELSE last.code \in {404, 500}
        /\ \A i \in 1..Len(queue) :
             /\ queue[i].postId # 0
             /\ queue[i].postId \notin Posts =>
                  queue[i].pc \in {"postCheck", "rollback"})
  /\ [][last'.code \in {400, 404} =>
          /\ NoSuchPost(last'.postId)
          /\ db' = db /\ committed' = committed]_vars

\* A vote on the id "-9" has just been answered 404 while a post carries
\* votes.
C10_Witness ==
  /\ last.code = 404 /\ last.postId = [nan |-> FALSE, val |-> 0 - 9]
  /\ db.posts[1].upvotes = 1

(***************************************************************************)
(* Frame of a vote.                                                        *)
(***************************************************************************)
\* Tables d and e differ at most in the ledger row (u, p) and in the two
\* counters of post p.
SameButVote(d, e, u, p) ==
  /\ \A k \in DOMAIN d.post_votes :
       k # <<u, p>> => e.post_votes[k] = d.post_votes[k]
  /\ DOMAIN e.posts = DOMAIN d.posts
  /\ \A q \in DOMAIN d.posts :
       /\ q # p => e.posts[q] = d.posts[q]
       /\ e.posts[q].title = d.posts[q].title
       /\ e.posts[q].author_id = d.posts[q].author_id
  /\ e.users = d.users
  /\ e.comments = d.comments
  /\ e.subcategories = d.subcategories
  /\ e.discount_events = d.discount_events
  /\ e.seq = d.seq

\* The number of counters of post p that differ by exactly 1 between d
\* and e, provided none differs by more.
CountersMoved(d, e, p) ==
  LET du == e.posts[p].upvotes - d.posts[p].upvotes
      dd == e.posts[p].downvotes - d.posts[p].downvotes
      one(x) == IF x \in {1, 0 - 1} THEN 1 ELSE 0
  IN  IF {du, dd} \subseteq {0 - 1, 0, 1} THEN one(du) + one(dd) ELSE 0 - 1

\* C11 (SeqSpec): with requests made one after another, every step of the
\* vote request of user U on post P changes, on the connection and in the
\* committed tables, at most the ledger row (U, P) and the two counters of
\* P: every other ledger row, every other post, the title and author of P
\* and every other table stay as they were.  The step that answers
\* success:true commits a change of exactly the one row (U, P) and of one
\* or two counters of P, each by exactly 1.
C11_VoteFrame ==
  [][HandlerStep =>
       /\ SameButVote(db, db', cur.userId, cur.postId)
       /\ SameButVote(committed, committed', cur.userId, cur.postId)
       /\ last'.success = {TRUE} =>
            /\ committed'.post_votes[<<cur.userId, cur.postId>>]
                 # committed.post_votes[<<cur.userId, cur.postId>>]
            /\ Len(committed'.post_votes[<<cur.userId, cur.postId>>]) = 1
            /\ CountersMoved(committed, committed', cur.postId) \in {1, 2}]_vars

\* User 1 has just switched their vote on post 1 to an upvote (both
\* counters answered) while post 2 carries the upvote of user 2.
C11_Witness ==
  /\ last.code = 200 /\ last.success = {TRUE}
  /\ last.upvotes = {1} /\ last.downvotes = {0}
  /\ last.userId = 1 /\ last.postId = Num(1)
  /\ db.post_votes[<<2, 2>>] = <<UP>>
  /\ db.posts[2].upvotes = 1

(***************************************************************************)
(* Role changes.                                                           *)
(***************************************************************************)
RoleOps == {"putRole", "promote"}

\* The role a role-change request asks for.
RequestedRole(op, arg) == IF op = "promote" THEN "moderator" ELSE arg

\* The cases of a role change that the rules deny: a moderator asking for
\* another role than moderator, a moderator on an admin target, and a
\* plain user.
MustDeny(op, role, arg, targetRole) ==
  \/ role = "moderator" /\ RequestedRole(op, arg) # "moderator"
  \/ role = "moderator" /\ targetRole = "admin"
  \/ role = "user"

\* The step answers a request (last' is its response).
Answers == last'.code # 0

\* The role of target t as the answering handler knows it: the role its
\* lookup returned or, when the lookup is this step or has not been
\* reached, the stored one.
TargetRole(t) ==
  IF started' = started /\ queue # <<>> /\ cur.seen # {}
  THEN cur.seen
  ELSE {db.users[t].role}

\* C12 as stated (GateSeqSpec): with no storage failure, an authenticated
\* role-change request on an existing target is answered 403 whenever the
\* caller is a moderator asking for another role than moderator, a
\* moderator acting on an admin target, or a plain user.
C12_DeniedWith403 ==
  /\ last.op \in RoleOps /\ last.code \notin {0, 401} /\ fails = 0
  /\ last.target \in DOMAIN db.users
  /\ MustDeny(last.op, last.role, last.arg, db.users[last.target].role)
  => last.code = 403

\* C12 (GateSeqSpec): an authenticated role-change request on an existing
\* target, made by a moderator asking for another role than moderator, by
\* a moderator on a target whose role (as the handler's lookup returns it)
\* is admin, or by a plain user, never changes a
\* row of table users.  It is answered 403, except that PUT answers 400
\* when the requested role is not one of user, moderator, admin, and that
\* the answer is 500 when the lookup of the target fails in storage.  No
\* step changes the role of a user unless it is the UPDATE of a request
\* on that user whose lookup returned a role that is not in one of the
\* denied cases.
C12_DeniedRoleChange ==
  /\ [][/\ Answers /\ last'.op \in RoleOps /\ last'.code # 401
        /\ last'.target \in DOMAIN db.users
        /\ \E targetRole \in TargetRole(last'.target) :
             MustDeny(last'.op, last'.role, last'.arg, targetRole)
        => /\ db'.users = db.users /\ committed'.users = committed.users
           /\ last'.code \in {400, 403, 500}
           /\ last'.code = 400 <=>
                last'.op = "putRole" /\ ~(last'.arg \in {"user", "moderator", "admin"})
           /\ last'.code = 500 => fails' = fails + 1]_vars
  /\ [][\A t \in DOMAIN db.users :
          db'.users[t].role # db.users[t].role =>
            /\ queue # <<>> /\ cur.target = t
            /\ cur.op \in RoleOps \cup {"deleteUser"}
            /\ cur.seen # {}
            /\ cur.op \in RoleOps =>
                 \A seenRole \in cur.seen :
                   ~MustDeny(cur.op, cur.role, cur.arg, seenRole)]_vars

\* A moderator asking to make an admin a moderator has just been refused.
C12_Witness ==
  /\ last.code = 403 /\ last.op = "putRole"
  /\ last.role = "moderator" /\ last.arg = "moderator"
  /\ last.target \in DOMAIN db.users
  /\ db.users[last.target].role = "admin"

\* C13 (GateSeqSpec): with no storage failure, every role-change request
\* made with an admin token on an existing target succeeds and stores the
\* requested role: PUT with role user, moderator or admin, and
\* promoteToModerator, whatever the role of the target.
C13_AdminSetsAnyRole ==
  /\ last.op \in RoleOps /\ last.role = "admin" /\ last.code # 0
  /\ fails = 0
  /\ last.target \in DOMAIN db.users
  /\ last.op = "putRole" => last.arg \in {"user", "moderator", "admin"}
  => /\ last.code = 200
     /\ db.users[last.target].role = RequestedRole(last.op, last.arg)

(***************************************************************************)
(* Order of the checks.                                                    *)
(***************************************************************************)
\* The rows a role-gated route looks its :id up in.
ResourceOf(d, op) ==
  CASE op \in {"putRole", "promote", "deleteUser"} -> d.users
    [] op \in {"putPost", "deletePost"} -> d.posts
    [] op \in {"putComment", "deleteComment"} -> d.comments

GatedOps ==
  {"putRole", "promote", "deleteUser", "putPost", "deletePost",
   "putComment", "deleteComment"}

\* C14 (GateSeqSpec): an authenticated request to a role-gated route whose
\* :id names no row is never answered 403, whatever the role of the
\* caller: absence is reported before permission is judged.
C14_AbsentIsNever403 ==
  /\ last.op \in GatedOps /\ last.code \notin {0, 401}
  /\ last.target \notin DOMAIN ResourceOf(db, last.op)
  => last.code # 403

(***************************************************************************)
(* User deletion.                                                          *)
(***************************************************************************)
\* The row a soft delete leaves: kept, with the name overwritten, the
\* password digest cleared and the role deleted.
SoftDeleted(row) ==
  [row EXCEPT !.username = "[DELETED USER]", !.password_hash = "NULL",
              !.role = "deleted"]

\* Who may delete a target of role targetRole.
MayDelete(role, targetRole) ==
  \/ role = "admin"
  \/ role = "moderator" /\ targetRole # "admin"

\* C15 (GateSeqSpec): DELETE /users/:id on an existing target, by an admin
\* token on any target or by a moderator token on a target whose role
\* (as the handler's lookup returns it) is not admin, answers 200 and
\* soft-deletes the target: the row is kept,
\* its username is overwritten, its password digest cleared and its role
\* set to deleted, and no other row changes.  A moderator on an admin
\* target and a caller who is neither admin nor moderator get 403 with
\* table users unchanged.  The only other answer is 500, when a statement
\* of the request fails in storage, also with table users unchanged.
C15_UserDeletion ==
  [][/\ queue # <<>> /\ started' = started =>
          (cur.op = "deleteUser" /\ ~Answers => db' = db)
     /\ Answers /\ last'.op = "deleteUser" /\ last'.code # 401
        /\ last'.target \in DOMAIN db.users
        => LET t == last'.target
               updating ==
                 /\ started' = started /\ queue # <<>>
                 /\ cur.pc = "deleteUser.update"
           IN  /\ last'.code \in {200, 403, 500}
               /\ last'.code = 500 => fails' = fails + 1
               /\ last'.code # 200 =>
                    db'.users = db.users /\ committed'.users = committed.users
               /\ last'.code = 403 <=> ~updating /\ fails' = fails
               /\ last'.code = 403 =>
                    ~MayDelete(last'.role, db.users[t].role)
               /\ last'.code = 200 =>
                    /\ cur.seen # {}
                    /\ \A seenRole \in cur.seen :
                         MayDelete(last'.role, seenRole)
                    /\ db'.users = [db.users EXCEPT ![t] = SoftDeleted(@)]
                    /\ committed'.users = db'.users]_vars

\* A moderator has just deleted a user who was not an admin.
C15_Witness ==
  /\ last.op = "deleteUser" /\ last.code = 200 /\ last.role = "moderator"
  /\ last.target \in DOMAIN db.users
  /\ db.users[last.target] =
       [username |-> "[DELETED USER]", password_hash |-> "NULL",
        role |-> "deleted", visible_to_others |-> TRUE]

(***************************************************************************)
(* The role field.                                                         *)
(***************************************************************************)
Roles == {"user", "moderator", "admin", "deleted"}

\* C16 (GateSeqSpec): in every reachable state, after any sequence of
\* register, role-change, promote and user-deletion requests with
\* arbitrary bodies, the role of every user is one of user, moderator,
\* admin, deleted.
C16_RoleInDomain ==
  \A u \in DOMAIN db.users : db.users[u].role \in Roles

(***************************************************************************)
(* Who writes the role.                                                    *)
(***************************************************************************)
RoleWritingPcs == {"putRole.update", "promote.update", "deleteUser.update"}

\* C17 (AppSeqSpec): with requests made one after another, the role of an
\* existing user changes, on the connection or in the committed tables,
\* only in the UPDATE of a PUT /users/:id/role, promoteToModerator or
\* DELETE /users/:id request on that user: every step of every other
\* request (register, login, profile update, post, comment, subcategory
\* and discount-event writes, votes) leaves the role of every existing
\* user as it was.
C17_RoleOnlyByRoleOps ==
  [][\A u \in DOMAIN db.users :
       \/ db'.users[u].role # db.users[u].role
       \/ committed'.users[u].role # committed.users[u].role
       => /\ started' = started /\ queue # <<>>
          /\ cur.pc \in RoleWritingPcs
          /\ cur.target = u]_vars

\* A profile update has just been stored for a user who has been made an
\* admin before: the row has the new visibility and is still admin.
C17_Witness ==
  /\ last.op = "profile" /\ last.code = 200
  /\ db.users[last.userId].visible_to_others = FALSE
  /\ db.users[last.userId].role = "admin"

(***************************************************************************)
(* Edits and deletions of posts and comments.                              *)
(***************************************************************************)
\* The author may act on their own resource, a moderator or admin on any.
AuthorOrMod(userId, role, author) ==
  author = userId \/ role \in {"moderator", "admin"}

\* The author of row t of rows as the answering handler knows it: the one
\* its lookup returned or, when the lookup is this step, the stored one.
KnownAuthor(rows, t) ==
  IF started' = started /\ queue # <<>> /\ cur.seen # {}
  THEN cur.seen
  ELSE {rows[t].author_id}

\* rows2 is rows without row t.
Removed(rows, rows2, t) ==
  /\ DOMAIN rows2 = DOMAIN rows \ {t}
  /\ \A x \in DOMAIN rows2 : rows2[x] = rows[x]

\* C18 (GateSeqSpec): PUT and DELETE /community/posts/:id on an existing
\* post, with a valid token.  The request is answered 403 exactly when the
\* caller is neither the author of the post nor a moderator or admin (and
\* its lookup did not fail), and then table posts is unchanged.  Otherwise
\* the lookup is followed by the write: the answer is 200 with the title
\* of that post replaced (PUT) or that post removed (DELETE) and every
\* other post as it was, or 500 with table posts unchanged when a
\* statement fails in storage.
C18_PostEditDelete ==
  [][/\ queue # <<>> /\ started' = started =>
          (cur.op \in {"putPost", "deletePost"} /\ ~Answers => db' = db)
     /\ Answers /\ last'.op \in {"putPost", "deletePost"}
        /\ last'.code # 401 /\ last'.target \in DOMAIN db.posts
        => LET t == last'.target
               writing ==
                 /\ started' = started /\ queue # <<>>
                 /\ cur.pc \in {"putPost.update", "deletePost.delete"}
               permitted ==
                 \A author \in KnownAuthor(db.posts, t) :
                   AuthorOrMod(last'.userId, last'.role, author)
           IN  /\ last'.code \in {200, 403, 500}
               /\ last'.code = 500 => fails' = fails + 1
               /\ last'.code # 200 =>
                    db'.posts = db.posts /\ committed'.posts = committed.posts
               /\ last'.code = 403 <=> ~writing /\ fails' = fails
               /\ last'.code = 403 <=> ~permitted /\ fails' = fails
               /\ last'.code = 200 =>
                    /\ permitted
                    /\ committed'.posts = db'.posts
                    /\ IF last'.op = "putPost"
                       THEN db'.posts =
                              [db.posts EXCEPT ![t].title = last'.arg]
                       ELSE Removed(db.posts, db'.posts, t)]_vars

\* A moderator has just replaced the title of a post of another user.
C18_Witness ==
  /\ last.op = "putPost" /\ last.code = 200 /\ last.role = "moderator"
  /\ last.target \in DOMAIN db.posts
  /\ db.posts[last.target].author_id # last.userId
  /\ db.posts[last.target].title = "t1"

\* C19 as stated (GateSeqSpec): with no storage failure, PUT on an existing
\* comment by an authenticated caller who is not its author is answered
\* 403.
C19_NonAuthorEditIs403 ==
  /\ last.op = "putComment" /\ last.code \notin {0, 401} /\ fails = 0
  /\ last.target \in DOMAIN db.comments
  /\ db.comments[last.target].author_id # last.userId
  => last.code = 403

\* C19 (GateSeqSpec): PUT and DELETE /community/comments/:id on an existing
\* comment, with a valid token.  A PUT without text is answered 400 before
\* anything is looked up.  A PUT with text by a caller who is not the
\* author is answered 403 whatever the caller's role is, and a PUT by the
\* author replaces the text (200).  A DELETE is answered 403 exactly when
\* the caller is neither the author nor a moderator or admin, and
\* otherwise removes the comment (200).  Every answer but 200 leaves
\* table comments unchanged; 500 is answered only when a statement fails
\* in storage.
C19_CommentEditDelete ==
  [][/\ queue # <<>> /\ started' = started =>
          (cur.op \in {"putComment", "deleteComment"} /\ ~Answers
             => db' = db)
     /\ Answers /\ last'.op \in {"putComment", "deleteComment"}
        /\ last'.code # 401 /\ last'.target \in DOMAIN db.comments
        => LET t == last'.target
               noText == last'.op = "putComment" /\ last'.arg = "none"
               permitted ==
                 \A author \in KnownAuthor(db.comments, t) :
                   IF last'.op = "putComment"
                   THEN author = last'.userId
                   ELSE AuthorOrMod(last'.userId, last'.role, author)
           IN  /\ last'.code \in {200, 400, 403, 500}
               /\ last'.code = 500 => fails' = fails + 1
               /\ last'.code # 200 =>
                    /\ db'.comments = db.comments
                    /\ committed'.comments = committed.comments
               /\ last'.code = 400 <=> noText
               /\ last'.code = 403 <=>
                    ~noText /\ ~permitted /\ fails' = fails
               /\ last'.code = 200 =>
                    /\ permitted
                    /\ committed'.comments = db'.comments
                    /\ IF last'.op = "putComment"
                       THEN db'.comments =
                              [db.comments EXCEPT ![t].text = last'.arg]
                       ELSE Removed(db.comments, db'.comments, t)]_vars

\* An admin who is not the author has just been refused the edit of a
\* comment, which keeps its text.
C19_Witness ==
  /\ last.op = "putComment" /\ last.code = 403 /\ last.role = "admin"
  /\ last.arg = "c1"
  /\ last.target \in DOMAIN db.comments
  /\ db.comments[last.target].author_id # last.userId
  /\ db.comments[last.target].text = "c0"

(***************************************************************************)
(* Subcategory moderation.                                                 *)
(***************************************************************************)
\* C20 (GateSeqSpec): an update (carrying a name) or a delete of the
\* subcategory of the populated database by a caller who presents no
\* valid token, or whose token role is not moderator or admin, is
\* answered 401 or 403 (and so changes nothing).
C20_SubcatGated ==
  /\ \/ last.op = "putSubcat" /\ last.arg # "none"
     \/ last.op = "deleteSubcat"
  /\ last.code # 0
  /\ last.target \in Subcats
  /\ last.role \notin {"moderator", "admin"}
  => last.code \in {401, 403}

(***************************************************************************)
(* Authentication.                                                         *)
(***************************************************************************)
\* The routes registered with authMiddleware.
AuthOps ==
  {"vote", "createPost", "putPost", "deletePost", "putComment",
   "deleteComment", "putRole", "promote", "deleteUser", "profile"}

\* A request is received in this step.
ArrivalStep == started' = started + 1

\* The request received in this step: the handler it queued or, when it
\* was answered at once, its response.
Arrived == IF queue' # queue THEN queue'[Len(queue')] ELSE last'

\* The route of a request (the vote handlers keep no op).
OpOf(r) == IF "op" \in DOMAIN r THEN r.op ELSE "vote"

\* C21 (AppSeqSpec): a request to an authenticated route (votes, post
\* create/edit/delete, comment edit/delete, role change, promote, user
\* deletion, profile update) that carries no Authorization header or a
\* token that fails verification (no identity is resolved: userId 0) is
\* answered 401, queues no query of the handler, and changes neither the
\* tables nor the transaction state.
C21_NoTokenIs401 ==
  [][ArrivalStep /\ OpOf(Arrived) \in AuthOps /\ Arrived.userId = 0
     => /\ last'.code = 401
        /\ queue' = queue
        /\ db' = db /\ committed' = committed /\ txStatus' = txStatus]_vars

\* A role change with no valid token has just been answered 401 while the
\* tables already hold a registered third user.
C21_Witness ==
  /\ last.code = 401 /\ last.op = "putRole" /\ last.userId = 0
  /\ queue = <<>>
  /\ 3 \in DOMAIN db.users


\* C22 (AppSeqSpec): every post and every comment that a step adds is added
\* by a handler whose caller presented a valid token, and carries that
\* caller's token userId as author_id; so a request without a valid token
\* creates neither.
C22_AuthorIsCaller ==
  [][\A rows \in {<<db.posts, db'.posts>>, <<db.comments, db'.comments>>} :
       \A x \in DOMAIN rows[2] \ DOMAIN rows[1] :
         /\ HandlerStep
         /\ cur.userId # 0
         /\ rows[2][x].author_id = cur.userId]_vars

(***************************************************************************)
(* Geocoding.                                                              *)
(***************************************************************************)
\* The geocoder answers, with no list of documents or with an empty one.
EmptyResults ==
  { [threw |-> FALSE, documents |-> {}],
    [threw |-> FALSE, documents |-> {<<>>}] }

\* C23 (CreateSeqSpec): a POST /restaurants for whose address the geocoder
\* returns an empty or absent list of documents is answered 400 (not 500)
\* and queues no upsert, for a new name and for the name of an existing
\* row alike: table restaurants is left as it was.
C23_NoGeocodeIs400 ==
  [][CreateRestaurantArriveWith(RNames, EmptyResults)
     => /\ last'.code = 400
        /\ queue' = queue
        /\ db' = db /\ committed' = committed]_vars

\* The restaurant of the populated database was upserted with a geocoded
\* address, and a second request for its name has just been answered 400.
C23_Witness ==
  /\ last.code = 400 /\ last.op = "createRestaurant" /\ last.arg = "r1"
  /\ queue = <<>>
  /\ db.restaurants["r1"].full_address = "a1"

(***************************************************************************)
(* Restaurant filters.                                                     *)
(***************************************************************************)
\* The string is a decimal number.
IsNumber(s) == Len(s) > 0 /\ DigitPrefixLen(s) = Len(s)

NumberOf(s) == DigitsValue(s, Len(s))

\* The filters a query provides, by the column they constrain: the name
\* when it is a non-empty string, a flag given as 'true' or 'false', the
\* box when its four bounds are numbers.
Provided(q) ==
  (IF q.name \notin {"none", ""} THEN {"name"} ELSE {})
  \cup { FlagColumns[i] : i \in { j \in DOMAIN q.flags :
                                    q.flags[j] \in {"true", "false"} } }
  \cup (IF \A s \in {q.box.minLat, q.box.maxLat, q.box.minLon, q.box.maxLon} :
             IsNumber(s)
        THEN {"geom"} ELSE {})

\* The values a provided filter binds, in the order of its placeholders:
\* the envelope is (xMin, yMin, xMax, yMax), x being the longitude.
Expected(q, column) ==
  IF column = "geom"
  THEN << NumValue(NumberOf(q.box.minLon)), NumValue(NumberOf(q.box.minLat)),
          NumValue(NumberOf(q.box.maxLon)), NumValue(NumberOf(q.box.maxLat)) >>
  ELSE IF column = "name" THEN << StrValue("%" \o q.name \o "%") >>
  ELSE << BoolValue(q.flags[CHOOSE i \in DOMAIN q.flags :
                              FlagColumns[i] = column] = "true") >>

\* The placeholders of the first n conditions, in the order of the text.
RECURSIVE PlaceholdersOf(_, _)
PlaceholdersOf(conditions, n) ==
  IF n = 0 THEN <<>>
  ELSE PlaceholdersOf(conditions, n - 1) \o conditions[n].placeholders

CreateOps ==
  {"createStore", "createSubcat", "createPost", "createComment",
   "createEvent"}

\* The create request r lacks a required field.
Lacks(r) == r.arg = "none" \/ (r.op = "createComment" /\ r.target = 0)

\* C25 (CreateSeqSpec): with no storage failure, a create request for a
\* store, subcategory, post, comment, user or discount event that passes
\* authentication and lacks a required field is answered 400, and no step
\* of it changes the tables.
C25_CreateValidates ==
  /\ [](/\ last.op \in CreateOps
        /\ last.code \notin {0, 401}
        /\ Lacks(last)
        /\ fails = 0
        => last.code = 400)
  /\ [][RegisterArriveWith({FALSE}, RoleArgs)
        => last'.code = 400 /\ queue' = queue]_vars
  /\ [][HandlerStep /\ cur.op \in CreateOps /\ Lacks(cur)
        => db' = db /\ committed' = committed]_vars

(***************************************************************************)
(* Transactions of overlapping requests.                                   *)
(***************************************************************************)
\* The ledger key a vote request writes.
OwnKey(r) == <<r.userId, r.postId>>

\* The ledger rows of the other pairs are the same in d and e.
OthersUntouched(d, e, key) ==
  \A k \in (Users \X Posts) \ {key} : d.post_votes[k] = e.post_votes[k]

\* C26 (TwoUsersSpec): two users upvote the same fresh post, the second
\* request arriving at any point of the first.  The BEGIN, COMMIT or
\* ROLLBACK of one request neither commits nor discards a ledger write of
\* the other; a request answered 500 leaves no ledger row of its own in the
\* committed tables; and a request answered success:true has its ledger row
\* and a count for it in the committed tables.
C26_TxIsolation ==
  /\ [][HandlerStep /\ cur.pc \in {"begin", "commit", "rollback"}
        => /\ OthersUntouched(committed, committed', OwnKey(cur))
           /\ OthersUntouched(db, db', OwnKey(cur))]_vars
  /\ [][HandlerStep /\ last'.code = 500
        => committed'.post_votes[OwnKey(cur)] = <<>>]_vars
  /\ [][HandlerStep /\ last'.success = {TRUE}
        => /\ committed'.post_votes[OwnKey(cur)] = <<cur.intent>>
           /\ committed'.posts[cur.postId].upvotes >= 1]_vars

(***************************************************************************)
(* Admin protection when requests overlap.                                 *)
(***************************************************************************)
\* C27 (RolesRaceSpec): the UPDATE of a role change, promotion or user
\* deletion requested with a moderator's token never changes the role of a
\* user who is an admin when the UPDATE is applied, also when another
\* request changed that user's role after the moderator's lookup.
C27_AdminProtectedUnderRace ==
  [][/\ HandlerStep
     /\ cur.pc \in RoleWritingPcs
     /\ cur.role = "moderator"
     /\ cur.target \in DOMAIN db.users
     /\ db.users[cur.target].role = "admin"
     => db'.users[cur.target].role = "admin"]_vars

(***************************************************************************)
(* Stored roles and tokens.                                                *)
(***************************************************************************)
\* The routes only a moderator or an admin may use.
StaffOps == {"putRole", "promote", "deleteUser"}

\* C28 (TokenSpec): a role change, promotion or user deletion attempted by
\* a user whose stored role is user or deleted when the request is answered
\* is not carried out: the answer is not 200 and table users is left as it
\* was, whatever role the token carries that the user presents.
C28_StoredRoleGoverns ==
  [][/\ Answers
     /\ last'.op \in StaffOps
     /\ last'.userId \in DOMAIN db.users
     /\ db.users[last'.userId].role \in {"user", "deleted"}
     => /\ last'.code # 200
        /\ db'.users = db.users]_vars

Privileged(role) == role \in {"admin", "moderator"}

\* The step is the UPDATE of a role operation on user u requested with the
\* token of an admin or a moderator.
GrantStep(u) ==
  /\ HandlerStep
  /\ cur.pc \in {"putRole.update", "promote.update"}
  /\ cur.target = u
  /\ Privileged(cur.role)

\* C29 (TokenSpec): a user comes to hold role admin or moderator in table
\* users only by the UPDATE of a role operation requested by an admin or a
\* moderator, and a token with role admin or moderator is signed only for
\* a user who holds that role in table users; register and login requests,
\* whatever their bodies, give nobody either role.
C29_NoEscalation ==
  [][/\ \A u \in DOMAIN db'.users :
          /\ Privileged(db'.users[u].role)
          /\ u \in DOMAIN db.users => db.users[u].role # db'.users[u].role
          => GrantStep(u)
     /\ \A t \in issued' \ issued :
          Privileged(t.role) =>
            /\ t.userId \in DOMAIN db.users
            /\ db.users[t.userId].role = t.role]_vars

(***************************************************************************)
(* Termination of a vote request.                                          *)
(***************************************************************************)
\* The positions of a vote handler from its BEGIN on.
InBlockPcs == {"begin", "ledger", "counters", "commit", "rollback"}

====
